---- MODULE Spec2Model ----
(***************************************************************************)
(* Model of comparse: a grammar is a graph of combinator rules; the       *)
(* interpreter (src/src/parser.py) parses a text against it, and the       *)
(* generator (src/src/generator.py) emits one routine per rule, which the  *)
(* emitted parser class runs.                                              *)
(*                                                                         *)
(* A text is a sequence of one-character strings.  A rule graph is a table *)
(* (sequence) of rule records; a rule instance is its index in the table,  *)
(* which plays the part of Python's id(rule).  Index 1 is the root rule.   *)
(***************************************************************************)
EXTENDS Integers, Sequences, FiniteSets, TLC

VARIABLES grammar, input, pc, parsed, call, used_rules, generated, genParsed,
          output_dir, output_file, disk, outcome, walker, walked, frames, reply

vars == <<grammar, input, pc, parsed, call, used_rules, generated, genParsed,
          output_dir, output_file, disk, outcome, walker, walked, frames, reply>>

\* what the caller chooses and no operation changes
inputs == <<grammar, input, output_dir, output_file, walker>>

\* the calls of _apply_rule in progress and the result of the last one
machine == <<frames, reply>>

(***************************************************************************)
(* Bounds                                                                  *)
(***************************************************************************)
MaxLen == 3

MaxCount == 2

\* longest text of parentheses and digits
MaxParenLen == 7

\* longest sentence beside those of the test
MaxSentenceLen == 4

\* longest command line beside those of the test
MaxCliLen == 4

\* longest text a leaf rule is applied to
MaxLeafLen == 3

\* the depth of calls at which Python raises RecursionError, in frames of
\* _apply_rule (sys.getrecursionlimit() is 1000 Python frames); deep enough
\* for every rule graph of the model whose Me consumes text before it is
\* reached
MaxDepth == 5 * (MaxLen + 2)

\* more values than a routine of the model captures on a text of MaxLen
\* characters
MaxCaptured == MaxLen + MaxCount + 2

(***************************************************************************)
(* Characters and Python string primitives                                 *)
(***************************************************************************)
Chars == {"a", " ", "1"}

LowerChars == {"a", "b", "c", "d", "e", "f", "g", "h", "i", "j", "k", "l", "m", "n", "o", "p",
               "q", "r", "s", "t", "u", "v", "w", "x", "y", "z"}

UpperChars == {"A", "B", "C", "D", "E", "F", "G", "H", "I", "J", "K", "L", "M", "N", "O", "P",
               "Q", "R", "S", "T", "U", "V", "W", "X", "Y", "Z"}

DigitChars == {"0", "1", "2", "3", "4", "5", "6", "7", "8", "9"}

SpaceChars == {" "}

RECURSIVE lstrip(_)
lstrip(text) ==
    IF text # <<>> /\ Head(text) \in SpaceChars THEN lstrip(Tail(text)) ELSE text

RECURSIVE rstrip(_)
rstrip(text) ==
    IF text # <<>> /\ text[Len(text)] \in SpaceChars
    THEN rstrip(SubSeq(text, 1, Len(text) - 1))
    ELSE text

strip(text) == rstrip(lstrip(text))

startswith(text, value) ==
    /\ Len(value) <= Len(text)
    /\ SubSeq(text, 1, Len(value)) = value

\* text[n:]
SliceFrom(text, n) == SubSeq(text, n + 1, Len(text))

\* text.replace(value, ''): every non-overlapping occurrence, left to right
RECURSIVE replace(_, _)
replace(text, value) ==
    IF value = <<>> \/ text = <<>> THEN text
    ELSE IF startswith(text, value) THEN replace(SliceFrom(text, Len(value)), value)
    ELSE <<Head(text)>> \o replace(Tail(text), value)

\* length of the longest prefix of text made of characters of class
RECURSIVE RunLen(_, _)
RunLen(text, class) ==
    IF text # <<>> /\ Head(text) \in class THEN 1 + RunLen(Tail(text), class) ELSE 0

\* length of the longest prefix of text made of characters outside class
RECURSIVE RunLenNot(_, _)
RunLenNot(text, class) ==
    IF text # <<>> /\ Head(text) \notin class THEN 1 + RunLenNot(Tail(text), class) ELSE 0

\* [\w\-]
WordChars == LowerChars \cup UpperChars \cup DigitChars \cup {"_", "-"}

\* \s
WhiteChars == {" ", "\t", "\n", "\r", "\f"}

\* length of the longest prefix of text made of characters other than the
\* backslash and the quote, of a backslash and the quote, of two backslashes
RECURSIVE QuotedRun(_, _)
QuotedRun(text, quote) ==
    IF text = <<>> THEN 0
    ELSE IF Head(text) \notin {"\\", quote} THEN 1 + QuotedRun(Tail(text), quote)
    ELSE IF Head(text) = "\\" /\ Len(text) >= 2 /\ text[2] \in {"\\", quote}
    THEN 2 + QuotedRun(SliceFrom(text, 2), quote)
    ELSE 0

\* the patterns of the grammar of src/src/test/cli.py
DoubleQuoted == "(?:[^\\\\\"]|\\\\\"|\\\\\\\\)*"

SingleQuoted == "(?:[^\\\\']|\\\\\\'|\\\\\\\\)*"

BareWord == "[^\\s=]+"

OptionName == "[a-zA-Z][\\w\\-]*"

DigitVal(c) ==
    CASE c = "0" -> 0 [] c = "1" -> 1 [] c = "2" -> 2 [] c = "3" -> 3 [] c = "4" -> 4
      [] c = "5" -> 5 [] c = "6" -> 6 [] c = "7" -> 7 [] c = "8" -> 8 [] c = "9" -> 9
      [] OTHER -> 0

\* int(matched_text) for a string of decimal digits
RECURSIVE int(_)
int(digits) ==
    IF digits = <<>> THEN 0
    ELSE 10 * int(SubSeq(digits, 1, Len(digits) - 1)) + DigitVal(digits[Len(digits)])

(***************************************************************************)
(* re.match(pattern, text): the length of the match at position 0, or -1.  *)
(* The patterns are the ones the grammars of the model use.                *)
(***************************************************************************)
ReMatch(pattern, text) ==
    CASE pattern = "[a-z]+" ->
            IF RunLen(text, LowerChars) >= 1 THEN RunLen(text, LowerChars) ELSE -1
      [] pattern = "[a-z]*" -> RunLen(text, LowerChars)
      [] pattern = "[A-Z]" -> IF text # <<>> /\ Head(text) \in UpperChars THEN 1 ELSE -1
      [] pattern = "\\d+" ->
            IF RunLen(text, DigitChars) >= 1 THEN RunLen(text, DigitChars) ELSE -1
      [] pattern = "\\\\d+" ->
            IF text # <<>> /\ Head(text) = "\\" /\ RunLen(Tail(text), {"d"}) >= 1
            THEN 1 + RunLen(Tail(text), {"d"}) ELSE -1
      [] pattern = "(.*?)" -> 0
      [] pattern = DoubleQuoted -> QuotedRun(text, "\"")
      [] pattern = SingleQuoted -> QuotedRun(text, "'")
      [] pattern = BareWord ->
            IF RunLenNot(text, WhiteChars \cup {"="}) >= 1
            THEN RunLenNot(text, WhiteChars \cup {"="}) ELSE -1
      [] pattern = OptionName ->
            IF text # <<>> /\ Head(text) \in LowerChars \cup UpperChars
            THEN 1 + RunLen(Tail(text), WordChars) ELSE -1
      [] OTHER -> -1

(***************************************************************************)
(* Python values held by an AST node, and the AST node itself              *)
(***************************************************************************)
StrVal(s) == [vk |-> "str", sv |-> s, iv |-> 0, items |-> <<>>]

IntVal(n) == [vk |-> "int", sv |-> <<>>, iv |-> n, items |-> <<>>]

ListVal(l) == [vk |-> "list", sv |-> <<>>, iv |-> 0, items |-> l]

\* Python truthiness of a value: "", 0, [] and None are false
Truthy(v) ==
    CASE v.vk = "str" -> v.sv # <<>>
      [] v.vk = "int" -> v.iv # 0
      [] v.vk = "list" -> v.items # <<>>
      [] OTHER -> FALSE

\* the None that _parse_optional puts in the value list of an absent Optional
None == [obj |-> "None", type |-> "", name |-> "", vk |-> "none",
         sv |-> <<>>, iv |-> 0, items |-> <<>>]

\* ASTNode.__init__: name is custom_name or node_type, value is value or []
ASTNode(node_type, value, custom_name) ==
    LET v == IF Truthy(value) THEN value ELSE ListVal(<<>>)
    IN [obj |-> "ASTNode", type |-> node_type,
        name |-> IF custom_name # "" THEN custom_name ELSE node_type,
        vk |-> v.vk, sv |-> v.sv, iv |-> v.iv, items |-> v.items]

\* ASTNode.ast: the dictionary of a node, child nodes converted too
RECURSIVE ast(_)
ast(node) ==
    IF node.obj # "ASTNode" THEN node
    ELSE [node EXCEPT !.obj = "dict",
                      !.items = [i \in DOMAIN node.items |-> ast(node.items[i])]]

(***************************************************************************)
(* Results of applying a rule: a ParseResult, None, or a raised exception  *)
(***************************************************************************)
ParseResult(value, remaining) ==
    [st |-> "match", value |-> value, remaining |-> remaining, err |-> ""]

NoMatch == [st |-> "nomatch", value |-> None, remaining |-> <<>>, err |-> ""]

Raise(err) == [st |-> "error", value |-> None, remaining |-> <<>>, err |-> err]

Matched(result) == result.st = "match"

Failed(result) == result.st = "nomatch"

Raised(result) == result.st = "error"

(***************************************************************************)
(* Rule model (src/src/abstract.py).  Every rule record has the same       *)
(* fields; a constructor fills the ones its class has.  rule and rules     *)
(* hold indices of the rule table; custom_name is "" until with_name.      *)
(***************************************************************************)
Blank == [kind |-> "", value |-> <<>>, pattern |-> "", rule |-> 0, rules |-> <<>>,
          min_count |-> 0, max_count |-> 0, custom_name |-> ""]

Literal(value) == [Blank EXCEPT !.kind = "Literal", !.value = value]

RegExp(pattern) == [Blank EXCEPT !.kind = "RegExp", !.pattern = pattern]

Number == [Blank EXCEPT !.kind = "Number"]

String == [Blank EXCEPT !.kind = "String"]

Me == [Blank EXCEPT !.kind = "Me"]

\* decorated_class is held in the field rule
Dependency(decorated_class) == [Blank EXCEPT !.kind = "Dependency", !.rule = decorated_class]

Optional(rule) == [Blank EXCEPT !.kind = "Optional", !.rule = rule]

Or(rules) == [Blank EXCEPT !.kind = "Or", !.rules = rules]

Conjoined(rules) == [Blank EXCEPT !.kind = "Conjoined", !.rules = rules]

GenericMinmax(rule, min_count, max_count) ==
    [Blank EXCEPT !.kind = "GenericMinmax", !.rule = rule,
                  !.min_count = min_count, !.max_count = max_count]

with_name(rule, custom_name) == [rule EXCEPT !.custom_name = custom_name]

(***************************************************************************)
(* Recursive-descent interpreter (src/src/parser.py).  R is the rule       *)
(* table, r a rule index.  active is the set of texts at which an          *)
(* application of the root rule is in progress: re-entering the root rule  *)
(* through Me at one of them repeats that application for ever, which      *)
(* Python ends with RecursionError.                                        *)
(***************************************************************************)
RECURSIVE _apply_rule(_, _, _, _)
RECURSIVE _parse_or_from(_, _, _, _, _)
RECURSIVE _parse_conjoined_from(_, _, _, _, _, _)
RECURSIVE _minmax_forced(_, _, _, _, _, _)
RECURSIVE _minmax_while(_, _, _, _, _)
RECURSIVE _minmax_for(_, _, _, _, _, _)

_parse_number(text) ==
    LET n == ReMatch("\\d+", text)
    IN IF n >= 0
       THEN ParseResult(ASTNode("Number", IntVal(int(SubSeq(text, 1, n))), ""),
                        SliceFrom(text, n))
       ELSE NoMatch

_parse_string(text0) ==
    LET text == strip(text0)
        n == ReMatch("(.*?)", text)
    IN IF n >= 0
       THEN ParseResult(ASTNode("String", StrVal(SubSeq(text, 1, n)), ""),
                        SliceFrom(text, n))
       ELSE NoMatch

_parse_literal(text0, rule) ==
    LET text == strip(text0)
    IN IF startswith(text, rule.value)
       THEN ParseResult(ASTNode("Literal", StrVal(rule.value), rule.custom_name),
                        SliceFrom(text, Len(rule.value)))
       ELSE NoMatch

_parse_regexp(text0, rule) ==
    LET text == strip(text0)
        n == ReMatch(rule.pattern, text)
    IN IF n >= 0
       THEN ParseResult(ASTNode("RegExp", StrVal(SubSeq(text, 1, n)), rule.custom_name),
                        SliceFrom(text, n))
       ELSE NoMatch

\* _parse_optional returning the trimmed text when the rule is absent
_parse_optional_trimmed(R, text, rule, active) ==
    LET result == _apply_rule(R, text, rule.rule, active)
    IN IF Raised(result) THEN result
       ELSE IF Matched(result)
       THEN ParseResult(ASTNode("Optional", ListVal(<<result.value>>), rule.custom_name),
                        result.remaining)
       ELSE ParseResult(ASTNode("Optional", ListVal(<<None>>), rule.custom_name), strip(text))

_parse_optional(R, text, rule, active) ==
    LET result == _apply_rule(R, text, rule.rule, active)
    IN IF Raised(result) THEN result
       ELSE IF Matched(result)
       THEN ParseResult(ASTNode("Optional", ListVal(<<result.value>>), rule.custom_name),
                        result.remaining)
       ELSE ParseResult(ASTNode("Optional", ListVal(<<None>>), rule.custom_name), text)

\* the loop of _parse_or from the i-th alternative on
_parse_or_from(R, text, rule, i, active) ==
    IF i > Len(rule.rules) THEN NoMatch
    ELSE LET result == _apply_rule(R, text, rule.rules[i], active)
         IN IF Raised(result) THEN result
            ELSE IF Matched(result)
            THEN ParseResult(ASTNode("Or", ListVal(<<result.value>>), rule.custom_name),
                             result.remaining)
            ELSE _parse_or_from(R, text, rule, i + 1, active)

\* _parse_or keeping the last alternative that matches instead of the first
_parse_or_last(R, text, rule, active) ==
    LET matching == {i \in DOMAIN rule.rules :
                        Matched(_apply_rule(R, text, rule.rules[i], active))}
        last == CHOOSE i \in matching : \A j \in matching : j <= i
        result == _apply_rule(R, text, rule.rules[last], active)
    IN IF matching = {} THEN _parse_or_from(R, text, rule, 1, active)
       ELSE ParseResult(ASTNode("Or", ListVal(<<result.value>>), rule.custom_name),
                        result.remaining)

_parse_or(R, text, rule, active) == _parse_or_from(R, text, rule, 1, active)

\* the loop of _parse_conjoined from the i-th sub-rule on
_parse_conjoined_from(R, current_text, values, rule, i, active) ==
    IF i > Len(rule.rules)
    THEN ParseResult(ASTNode("Conjoined", ListVal(values), rule.custom_name), current_text)
    ELSE LET result == _apply_rule(R, current_text, rule.rules[i], active)
         IN IF Raised(result) THEN result
            ELSE IF Failed(result) THEN NoMatch
            ELSE _parse_conjoined_from(R, result.remaining, Append(values, result.value),
                                       rule, i + 1, active)

_parse_conjoined(R, text, rule, active) ==
    _parse_conjoined_from(R, strip(text), <<>>, rule, 1, active)

\* the state of the loops of _parse_minmax
Loop(st, current_text, values, err) ==
    [st |-> st, current_text |-> current_text, values |-> values, err |-> err]

\* the forced loop with break in place of return None
_minmax_forced_break(R, n, current_text, values, rule, active) ==
    IF n <= 0 THEN Loop("ok", current_text, values, "")
    ELSE LET result == _apply_rule(R, current_text, rule.rule, active)
         IN IF Raised(result) THEN Loop("error", current_text, values, result.err)
            ELSE IF Failed(result) THEN Loop("ok", current_text, values, "")
            ELSE _minmax_forced(R, n - 1, strip(result.remaining),
                                Append(values, result.value), rule, active)

\* for _ in range(n): a failed application fails the repetition
_minmax_forced(R, n, current_text, values, rule, active) ==
    IF n <= 0 THEN Loop("ok", current_text, values, "")
    ELSE LET result == _apply_rule(R, current_text, rule.rule, active)
         IN IF Raised(result) THEN Loop("error", current_text, values, result.err)
            ELSE IF Failed(result) THEN Loop("nomatch", current_text, values, "")
            ELSE _minmax_forced(R, n - 1, strip(result.remaining),
                                Append(values, result.value), rule, active)

\* the while loop testing for an unchanged remainder before it keeps the value
_minmax_while_dropping(R, current_text, values, rule, active) ==
    IF current_text = <<>> THEN Loop("ok", current_text, values, "")
    ELSE LET result == _apply_rule(R, current_text, rule.rule, active)
         IN IF Raised(result) THEN Loop("error", current_text, values, result.err)
            ELSE IF Failed(result) THEN Loop("ok", current_text, values, "")
            ELSE IF current_text = strip(result.remaining)
            THEN Loop("ok", current_text, values, "")
            ELSE _minmax_while(R, strip(result.remaining),
                               Append(values, result.value), rule, active)

\* while current_text: stops on a failure or on an unchanged remainder
_minmax_while(R, current_text, values, rule, active) ==
    IF current_text = <<>> THEN Loop("ok", current_text, values, "")
    ELSE LET result == _apply_rule(R, current_text, rule.rule, active)
         IN IF Raised(result) THEN Loop("error", current_text, values, result.err)
            ELSE IF Failed(result) THEN Loop("ok", current_text, values, "")
            ELSE IF current_text = strip(result.remaining)
            THEN Loop("ok", current_text, Append(values, result.value), "")
            ELSE _minmax_while(R, strip(result.remaining),
                               Append(values, result.value), rule, active)

\* for _ in range(n): stops early on a failure
_minmax_for(R, n, current_text, values, rule, active) ==
    IF n <= 0 THEN Loop("ok", current_text, values, "")
    ELSE LET result == _apply_rule(R, current_text, rule.rule, active)
         IN IF Raised(result) THEN Loop("error", current_text, values, result.err)
            ELSE IF Failed(result) THEN Loop("ok", current_text, values, "")
            ELSE _minmax_for(R, n - 1, strip(result.remaining),
                             Append(values, result.value), rule, active)

_parse_minmax(R, text, rule, active) ==
    LET forced == _minmax_forced(R, rule.min_count, strip(text), <<>>, rule, active)
        more == IF rule.max_count = 0
                THEN _minmax_while(R, forced.current_text, forced.values, rule, active)
                ELSE _minmax_for(R, rule.max_count - rule.min_count,
                                 forced.current_text, forced.values, rule, active)
    IN IF forced.st = "error" THEN Raise(forced.err)
       ELSE IF forced.st = "nomatch" THEN NoMatch
       ELSE IF more.st = "error" THEN Raise(more.err)
       ELSE ParseResult(ASTNode("Minmax", ListVal(more.values), rule.custom_name),
                        more.current_text)

\* a Me that never matches
_parse_me_failing(R, text, active) == NoMatch

\* Me: _parse_with_rules(text, lexical_rule_root), the root being rule 1
_parse_me(R, text, active) ==
    IF text \in active THEN Raise("RecursionError")
    ELSE _apply_rule(R, text, 1, active \cup {text})

_apply_rule(R, text, r, active) ==
    LET rule == R[r]
    IN CASE rule.kind = "Number" -> _parse_number(text)
         [] rule.kind = "String" -> _parse_string(text)
         [] rule.kind = "Literal" -> _parse_literal(text, rule)
         [] rule.kind = "RegExp" -> _parse_regexp(text, rule)
         [] rule.kind = "Optional" -> _parse_optional(R, text, rule, active)
         [] rule.kind = "Or" -> _parse_or(R, text, rule, active)
         [] rule.kind = "Conjoined" -> _parse_conjoined(R, text, rule, active)
         [] rule.kind = "Me" -> _parse_me(R, text, active)
         [] rule.kind = "Dependency" -> _apply_rule(R, text, rule.rule, active)
         [] rule.kind = "GenericMinmax" -> _parse_minmax(R, text, rule, active)
         [] OTHER -> Raise("ValueError")

\* _parse_with_rules for a root rule that is a single rule
_parse_with_rules(R, text) == _apply_rule(R, text, 1, {text})

\* Parser._clean_text: every Literal of the ignore rules is removed
RECURSIVE _clean_text_from(_, _, _)
_clean_text_from(ignore_rules, i, text) ==
    IF i > Len(ignore_rules) THEN text
    ELSE _clean_text_from(ignore_rules, i + 1,
            IF ignore_rules[i].kind = "Literal"
            THEN replace(text, ignore_rules[i].value) ELSE text)

_clean_text(G, text) == _clean_text_from(G.ignore, 1, text)

\* the outcome of Parser.parse or of the emitted parse: the tree returned or
\* the exception raised with the text its message holds, and the hooks of the
\* grammar that have been called
Outcome(st, tree, err, remaining, hooks) ==
    [st |-> st, ast |-> tree, err |-> err, remaining |-> remaining, hooks |-> hooks]

NotRun == Outcome("none", None, "", <<>>, <<>>)

\* a ValueError whose message leaves out the text
ValueError_without_text(text) == Outcome("error", None, "ValueError", <<>>, <<>>)

\* raise ValueError(f"... {text}")
ValueError(text) == Outcome("error", None, "ValueError", text, <<>>)

\* the end of parse when the text is wholly parsed: the content hook is called,
\* then the transform hook if the grammar has one.  The content hook is the
\* one of Grammar; the transform hook returns the list of values it is given.
Parsed(G, value) ==
    IF G.transform
    THEN Outcome("ok", [obj |-> "list", type |-> "", name |-> "", vk |-> "list", sv |-> <<>>,
                        iv |-> 0, items |-> <<ast(value)>>], "", <<>>, <<"content", "transform">>)
    ELSE Outcome("ok", ast(ASTNode(G.name, ListVal(<<value>>), "")), "", <<>>, <<"content">>)

\* parse without the test of the remaining text
parse_unchecked(G, text0) ==
    LET text == _clean_text(G, text0)
        result == _parse_with_rules(G.rules, text)
    IN IF Raised(result) THEN Outcome("error", None, result.err, <<>>, <<>>)
       ELSE IF Failed(result) THEN ValueError(text)
       ELSE Parsed(G, result.value)

\* Parser.parse
parse(G, text0) ==
    LET text == _clean_text(G, text0)
        result == _parse_with_rules(G.rules, text)
    IN IF Raised(result) THEN Outcome("error", None, result.err, <<>>, <<>>)
       ELSE IF Failed(result) THEN ValueError(text)
       ELSE IF strip(result.remaining) # <<>> THEN ValueError(result.remaining)
       ELSE Parsed(G, result.value)

(***************************************************************************)
(* The interpreter step by step.  The calls of _apply_rule in progress are *)
(* a stack of frames; a frame holds the rule and the text of the call and  *)
(* the local variables of the routine: the loop it is in (at), the number  *)
(* of the sub-rule or of the round (n), current_text and values.  The      *)
(* result of the call that has just returned is the reply to the frame     *)
(* below it.  One step takes the routine on top of the stack to its next   *)
(* call of _apply_rule or to its return.                                   *)
(***************************************************************************)
Frame(r, text) ==
    [r |-> r, text |-> text, at |-> "", n |-> 0, current_text |-> text, values |-> <<>>]

\* no call has returned
NoReply == [st |-> "none", value |-> None, remaining |-> <<>>, err |-> ""]

\* what the routine on top does next: it calls _apply_rule(text, r), or it
\* returns result
Move(do, frame, r, text, result) ==
    [do |-> do, frame |-> frame, r |-> r, text |-> text, result |-> result]

Calls(frame, r, text) == Move("call", frame, r, text, NoReply)

Returns(result) == Move("return", Frame(0, <<>>), 0, <<>>, result)

\* the frame after values.append(result.value)
Appended(frame, result) == [frame EXCEPT !.values = Append(@, result.value)]

\* return ParseResult(ASTNode("Minmax", value=values, ...), current_text)
minmax_return(rule, frame) ==
    Returns(ParseResult(ASTNode("Minmax", ListVal(frame.values), rule.custom_name),
                        frame.current_text))

\* the test of the while loop that never finds the remainder unchanged
remainder_unchanged_never(current_text, result) == FALSE

\* if current_text == result.remaining.strip()
remainder_unchanged(current_text, result) == current_text = strip(result.remaining)

\* the heads of the three loops of _parse_minmax
RECURSIVE minmax_loop(_, _)
minmax_loop(rule, frame) ==
    CASE frame.at = "forced" ->
            IF frame.n < rule.min_count THEN Calls(frame, rule.rule, frame.current_text)
            ELSE minmax_loop(rule, [frame EXCEPT !.n = 0,
                                        !.at = IF rule.max_count = 0 THEN "while" ELSE "for"])
      [] frame.at = "while" ->
            IF frame.current_text # <<>> THEN Calls(frame, rule.rule, frame.current_text)
            ELSE minmax_return(rule, frame)
      [] OTHER ->
            IF frame.n < rule.max_count - rule.min_count
            THEN Calls(frame, rule.rule, frame.current_text)
            ELSE minmax_return(rule, frame)

\* _parse_minmax after its call has returned result
minmax_resume(rule, frame, result) ==
    LET taken == [Appended(frame, result) EXCEPT !.current_text = strip(result.remaining),
                                                 !.n = @ + 1]
    IN CASE frame.at = "forced" ->
               IF Failed(result) THEN Returns(NoMatch) ELSE minmax_loop(rule, taken)
         [] frame.at = "while" ->
               IF Failed(result) THEN minmax_return(rule, frame)
               ELSE IF remainder_unchanged(frame.current_text, result)
               THEN minmax_return(rule, Appended(frame, result))
               ELSE minmax_loop(rule, taken)
         [] OTHER ->
               IF Failed(result) THEN minmax_return(rule, frame) ELSE minmax_loop(rule, taken)

\* _parse_optional after its call has returned result
optional_resume(rule, frame, result) ==
    IF Matched(result)
    THEN Returns(ParseResult(ASTNode("Optional", ListVal(<<result.value>>), rule.custom_name),
                             result.remaining))
    ELSE Returns(ParseResult(ASTNode("Optional", ListVal(<<None>>), rule.custom_name),
                             frame.text))

\* _parse_or after the call for its n-th sub-rule has returned result
or_resume(rule, frame, result) ==
    IF Matched(result)
    THEN Returns(ParseResult(ASTNode("Or", ListVal(<<result.value>>), rule.custom_name),
                             result.remaining))
    ELSE IF frame.n < Len(rule.rules)
    THEN Calls([frame EXCEPT !.n = @ + 1], rule.rules[frame.n + 1], frame.text)
    ELSE Returns(NoMatch)

\* _parse_conjoined after the call for its n-th sub-rule has returned result
conjoined_resume(rule, frame, result) ==
    LET taken == [Appended(frame, result) EXCEPT !.current_text = result.remaining,
                                                 !.n = @ + 1]
    IN IF Failed(result) THEN Returns(NoMatch)
       ELSE IF frame.n < Len(rule.rules)
       THEN Calls(taken, rule.rules[frame.n + 1], taken.current_text)
       ELSE Returns(ParseResult(ASTNode("Conjoined", ListVal(taken.values), rule.custom_name),
                                taken.current_text))

\* _apply_rule(text, rule) from its entry to its first call or to its return
apply_rule_enter(R, frame) ==
    LET rule == R[frame.r]
        trimmed == [frame EXCEPT !.current_text = strip(frame.text)]
    IN CASE rule.kind = "Number" -> Returns(_parse_number(frame.text))
         [] rule.kind = "String" -> Returns(_parse_string(frame.text))
         [] rule.kind = "Literal" -> Returns(_parse_literal(frame.text, rule))
         [] rule.kind = "RegExp" -> Returns(_parse_regexp(frame.text, rule))
         [] rule.kind = "Optional" -> Calls(frame, rule.rule, frame.text)
         [] rule.kind = "Or" ->
               IF rule.rules = <<>> THEN Returns(NoMatch)
               ELSE Calls([frame EXCEPT !.n = 1], rule.rules[1], frame.text)
         [] rule.kind = "Conjoined" ->
               IF rule.rules = <<>>
               THEN Returns(ParseResult(ASTNode("Conjoined", ListVal(<<>>), rule.custom_name),
                                        trimmed.current_text))
               ELSE Calls([trimmed EXCEPT !.n = 1], rule.rules[1], trimmed.current_text)
         [] rule.kind = "Me" -> Calls(frame, 1, frame.text)
         [] rule.kind = "Dependency" -> Calls(frame, rule.rule, frame.text)
         [] rule.kind = "GenericMinmax" -> minmax_loop(rule, [trimmed EXCEPT !.at = "forced"])
         [] OTHER -> Returns(Raise("ValueError"))

\* _apply_rule(text, rule) after the call it was waiting for has returned
\* result; an exception goes through every routine
apply_rule_resume(R, frame, result) ==
    LET rule == R[frame.r]
    IN IF Raised(result) THEN Returns(result)
       ELSE CASE rule.kind = "Optional" -> optional_resume(rule, frame, result)
              [] rule.kind = "Or" -> or_resume(rule, frame, result)
              [] rule.kind = "Conjoined" -> conjoined_resume(rule, frame, result)
              [] rule.kind = "GenericMinmax" -> minmax_resume(rule, frame, result)
              [] OTHER -> Returns(result)

\* the next move of the routine on top of the stack
next_move(R, frame, result) ==
    IF result = NoReply THEN apply_rule_enter(R, frame) ELSE apply_rule_resume(R, frame, result)

\* the end of parse, for the result of the root rule on the cleaned text
parse_end(G, text, result) ==
    IF Raised(result) THEN Outcome("error", None, result.err, <<>>, <<>>)
    ELSE IF Failed(result) THEN ValueError(text)
    ELSE IF strip(result.remaining) # <<>> THEN ValueError(result.remaining)
    ELSE Parsed(G, result.value)

(***************************************************************************)
(* Generator, analysis (src/src/generator.py, RuleProcessor).  The nested  *)
(* dictionary process_rule returns is held flat: an entry says whether it  *)
(* is a {"rule_ref": ...} dictionary or a rule definition, and defs maps   *)
(* a rule instance to the definition made at its first visit.              *)
(***************************************************************************)
\* rule_name of process_rule: the display name, else the class name
RuleName(rule) == IF rule.custom_name # "" THEN rule.custom_name ELSE rule.kind

\* f"{rule_name}_{id(rule)}"
RuleId(R, r) == <<RuleName(R[r]), r>>

Entry(ref, r) == [ref |-> ref, r |-> r]

NoDef == [type |-> "", name |-> "", id |-> <<"", 0>>, value |-> <<>>, pattern |-> "",
          rule |-> Entry(FALSE, 0), rules |-> <<>>, min |-> 0, max |-> 0]

Analysis(used, defs, out) == [used |-> used, defs |-> defs, out |-> out]

RECURSIVE process_rule(_, _, _, _)
RECURSIVE process_rules(_, _, _, _, _, _)

\* [self.process_rule(r) for r in rule.rules], from the i-th rule on
process_rules(R, rs, i, used, defs, outs) ==
    IF i > Len(rs) THEN Analysis(used, defs, outs)
    ELSE LET a == process_rule(R, rs[i], used, defs)
         IN process_rules(R, rs, i + 1, a.used, a.defs, Append(outs, a.out))

process_rule(R, r, used, defs) ==
    LET rule == R[r]
        rule_id == RuleId(R, r)
        rule_def == [NoDef EXCEPT !.type = rule.kind, !.name = RuleName(rule),
                                  !.id = rule_id]
        used1 == used \cup {rule_id}
    IN IF rule_id \in used THEN Analysis(used, defs, Entry(TRUE, r))
       ELSE CASE rule.kind = "Literal" ->
                   Analysis(used1, [defs EXCEPT ![r] = [rule_def EXCEPT !.value = rule.value]],
                            Entry(FALSE, r))
              [] rule.kind = "RegExp" ->
                   Analysis(used1,
                            [defs EXCEPT ![r] = [rule_def EXCEPT !.pattern = rule.pattern]],
                            Entry(FALSE, r))
              [] rule.kind = "Optional" ->
                   LET a == process_rule(R, rule.rule, used1, defs)
                   IN Analysis(a.used,
                               [a.defs EXCEPT ![r] = [rule_def EXCEPT !.rule = a.out]],
                               Entry(FALSE, r))
              [] rule.kind \in {"Or", "Conjoined"} ->
                   LET a == process_rules(R, rule.rules, 1, used1, defs, <<>>)
                   IN Analysis(a.used,
                               [a.defs EXCEPT ![r] = [rule_def EXCEPT !.rules = a.out]],
                               Entry(FALSE, r))
              [] rule.kind = "GenericMinmax" ->
                   LET a == process_rule(R, rule.rule, used1, defs)
                   IN Analysis(a.used,
                               [a.defs EXCEPT ![r] = [rule_def EXCEPT !.rule = a.out,
                                                                      !.min = rule.min_count,
                                                                      !.max = rule.max_count]],
                               Entry(FALSE, r))
              [] OTHER ->
                   Analysis(used1, [defs EXCEPT ![r] = rule_def], Entry(FALSE, r))

\* analyze_grammar_rules: the root rule is processed with the processor's used_rules
analyze_grammar_rules(G, used) ==
    process_rule(G.rules, 1, used, [r \in DOMAIN G.rules |-> NoDef])

(***************************************************************************)
(* Generator, emission (CodeTemplateManager).  An emitted routine is held  *)
(* as the record of what its template was filled with: the template, the   *)
(* rule instance it is named after, and the routines it calls.             *)
(***************************************************************************)
Method(template, r, name, value, pattern, calls, min, max) ==
    [template |-> template, r |-> r, name |-> name, value |-> value,
     pattern |-> pattern, calls |-> calls, min |-> min, max |-> max]

\* rule_def["pattern"].replace("\\", "\\\\"), for the patterns of ReMatch
EscapedPattern(pattern) ==
    CASE pattern = "\\d+" -> "\\\\d+"
      [] pattern = DoubleQuoted -> "(?:[^\\\\\\\\\"]|\\\\\\\\\"|\\\\\\\\\\\\\\\\)*"
      [] pattern = SingleQuoted -> "(?:[^\\\\\\\\']|\\\\\\\\\\\\'|\\\\\\\\\\\\\\\\)*"
      [] pattern = BareWord -> "[^\\\\s=]+"
      [] pattern = OptionName -> "[a-zA-Z][\\\\w\\\\-]*"
      [] OTHER -> pattern

Emitted(st, methods, processed) == [st |-> st, methods |-> methods, processed |-> processed]

_generate_literal_method(rule_def, r) ==
    Method("Literal", r, rule_def.name, rule_def.value, "", <<>>, 0, 0)

_generate_regexp_method(rule_def, r) ==
    Method("RegExp", r, rule_def.name, <<>>, EscapedPattern(rule_def.pattern), <<>>, 0, 0)

\* the template raised KeyError instead of returning a routine
KeyError == Method("KeyError", 0, "", <<>>, "", <<>>, 0, 0)

\* rule_def["rule"]["id"] raises KeyError on a rule_ref dictionary
_generate_optional_method(rule_def, r) ==
    IF rule_def.rule.ref THEN KeyError
    ELSE Method("Optional", r, rule_def.name, <<>>, "", <<rule_def.rule.r>>, 0, 0)

\* subrule.get("rule_ref", subrule["id"]) evaluates subrule["id"] first
_generate_or_method(rule_def, r) ==
    IF \E i \in DOMAIN rule_def.rules : rule_def.rules[i].ref THEN KeyError
    ELSE Method("Or", r, rule_def.name, <<>>, "",
                [i \in DOMAIN rule_def.rules |-> rule_def.rules[i].r], 0, 0)

_generate_conjoined_method(rule_def, r) ==
    IF \E i \in DOMAIN rule_def.rules : rule_def.rules[i].ref THEN KeyError
    ELSE Method("Conjoined", r, rule_def.name, <<>>, "",
                [i \in DOMAIN rule_def.rules |-> rule_def.rules[i].r], 0, 0)

_generate_minmax_method(rule_def, r) ==
    IF rule_def.rule.ref THEN KeyError
    ELSE Method("Minmax", r, rule_def.name, <<>>, "", <<rule_def.rule.r>>,
                rule_def.min, rule_def.max)

RECURSIVE process_rule_def(_, _, _)
RECURSIVE process_rule_defs(_, _, _, _)

\* for subrule in rule_def["rules"]: if "rule_ref" not in subrule: process_rule_def(subrule)
process_rule_defs(defs, entries, i, em) ==
    IF i > Len(entries) \/ em.st # "ok" THEN em
    ELSE process_rule_defs(defs, entries, i + 1,
            IF entries[i].ref THEN em ELSE process_rule_def(defs, entries[i], em))

process_rule_def(defs, entry, em) ==
    IF em.st # "ok" THEN em
    ELSE IF entry.ref THEN [em EXCEPT !.st = "KeyError"]
    ELSE IF entry.r \in em.processed THEN em
    ELSE LET r == entry.r
             rule_def == defs[r]
             em1 == [em EXCEPT !.processed = @ \cup {r}]
             emit(m) == IF m = KeyError THEN [em1 EXCEPT !.st = "KeyError"]
                        ELSE [em1 EXCEPT !.methods = Append(@, m)]
         IN CASE rule_def.type = "Literal" -> emit(_generate_literal_method(rule_def, r))
              [] rule_def.type = "RegExp" -> emit(_generate_regexp_method(rule_def, r))
              [] rule_def.type = "Optional" ->
                    process_rule_def(defs, rule_def.rule,
                                     emit(_generate_optional_method(rule_def, r)))
              [] rule_def.type = "Or" ->
                    process_rule_defs(defs, rule_def.rules, 1,
                                      emit(_generate_or_method(rule_def, r)))
              [] rule_def.type = "Conjoined" ->
                    process_rule_defs(defs, rule_def.rules, 1,
                                      emit(_generate_conjoined_method(rule_def, r)))
              [] rule_def.type = "GenericMinmax" ->
                    process_rule_def(defs, rule_def.rule,
                                     emit(_generate_minmax_method(rule_def, r)))
              [] OTHER -> em1

\* generate_rule_methods: _parse_root, which calls the root's routine, then the rest
generate_rule_methods(a) ==
    IF a.out.ref THEN Emitted("KeyError", <<>>, {})
    ELSE process_rule_def(a.defs, a.out, Emitted("ok", <<>>, {}))

\* the emitted parser class, or the exception that ended the generation
Source(st, root, methods, ignore_rules, name) ==
    [st |-> st, root |-> root, methods |-> methods, ignore_rules |-> ignore_rules,
     name |-> name]

NoSource == Source("none", 0, <<>>, <<>>, "")

create_parser_template(G, a) ==
    LET em == generate_rule_methods(a)
    IN IF em.st # "ok" THEN Source(em.st, 0, <<>>, <<>>, "")
       ELSE Source("ok", a.out.r, em.methods, G.ignore, G.name)

(***************************************************************************)
(* Files (src/src/generator.py, FileManager and ParserGenerator.generate). *)
(* A path is the sequence of the pieces of its string between the "/": a   *)
(* leading "" piece is an absolute path, a trailing "" piece a path that   *)
(* ends with "/", and <<>> is None or the empty string.  A file system is  *)
(* the set of its directories and the set of its files, each held as an    *)
(* absolute path without trailing "/".                                     *)
(***************************************************************************)
NoPath == <<>>

\* the working directory of the process
Cwd == <<"", "work">>

\* os.path.join(Path(__file__).parent.parent, "generated")
DefaultDir == <<"", "comparse", "generated">>

isabs(p) == p # <<>> /\ p[1] = "" /\ Len(p) >= 2

endswith_slash(p) == Len(p) >= 2 /\ p[Len(p)] = ""

\* p without the "" piece of a trailing "/"
Trimmed(p) == IF p # <<>> /\ p[Len(p)] = "" /\ Len(p) >= 2 THEN SubSeq(p, 1, Len(p) - 1) ELSE p

\* os.path.join(a, b): b alone when b is absolute, else a, "/" and b
join(a, b) == IF isabs(b) THEN b ELSE IF a = <<>> THEN b ELSE Trimmed(a) \o b

\* the place in the file system a path names
Resolve(p) == IF isabs(p) THEN Trimmed(p) ELSE Trimmed(join(Cwd, p))

Parent(loc) == SubSeq(loc, 1, Len(loc) - 1)

Prefixes(loc) == {SubSeq(loc, 1, n) : n \in 2..Len(loc)}

FileSystem(dirs, files) == [dirs |-> dirs, files |-> files]

\* a file system that holds the working directory and nothing else
EmptyFs == FileSystem({<<"">>, Cwd}, {})

exists(fs, p) == Resolve(p) \in fs.dirs \cup fs.files

isdir(fs, p) == Resolve(p) \in fs.dirs

\* the outcome of a file operation: the file system after it, the exception raised
FsResult(fs, err) == [fs |-> fs, err |-> err]

\* os.makedirs(directory, exist_ok=True)
makedirs(fs, p) ==
    IF Prefixes(Resolve(p)) \cap fs.files # {} THEN FsResult(fs, "FileExistsError")
    ELSE FsResult(FileSystem(fs.dirs \cup Prefixes(Resolve(p)), fs.files), "")

\* FileManager.ensure_directory_exists
ensure_directory_exists(fs, directory) ==
    IF exists(fs, directory) THEN FsResult(fs, "") ELSE makedirs(fs, directory)

\* open(fl, 'w') and write
open_w(fs, fl) ==
    IF fl = <<>> \/ Parent(Resolve(fl)) \notin fs.dirs THEN FsResult(fs, "FileNotFoundError")
    ELSE IF endswith_slash(fl) \/ Resolve(fl) \in fs.dirs THEN FsResult(fs, "IsADirectoryError")
    ELSE FsResult(FileSystem(fs.dirs, fs.files \cup {Resolve(fl)}), "")

\* FileManager.write_file: the file written is dir_root joined with file_path
write_file(fs, dir_root, file_path) == open_w(fs, join(dir_root, file_path))

\* f"{grammar_class.__name__}_parser.py"
ParserFile(name) ==
    CASE name = "G" -> "G_parser.py"
      [] name = "CommandLineParser" -> "CommandLineParser_parser.py"
      [] name = "EnglishSentenceParser" -> "EnglishSentenceParser_parser.py"
      [] OTHER -> "_parser.py"

\* what a call of generate leaves: the path returned or the exception raised,
\* and the path of the file written
Out(st, returned, written, err) ==
    [st |-> st, returned |-> returned, written |-> written, err |-> err]

NoOut == Out("none", NoPath, NoPath, "")

Generated(used, source, fs, out) == [used |-> used, source |-> source, fs |-> fs, out |-> out]

\* ParserGenerator.__init__: output_dir or the default directory
ParserGenerator(dir_arg) == IF dir_arg = <<>> THEN DefaultDir ELSE dir_arg

\* ParserGenerator.generate(output_file) of a generator with the directory dir
\* and the memoization set used
generate(G, dir, output_file0, used, fs0) ==
    LET e1 == ensure_directory_exists(fs0, dir)
        named == output_file0 # <<>>
        asdir == named /\ (isdir(e1.fs, output_file0) \/ endswith_slash(output_file0))
        e2 == IF asdir THEN ensure_directory_exists(e1.fs, output_file0) ELSE e1
        file_path == IF ~named THEN join(dir, <<ParserFile(G.name)>>)
                       ELSE IF asdir THEN join(output_file0, <<ParserFile(G.name)>>)
                       ELSE output_file0
        a == analyze_grammar_rules(G, used)
        parser_code == create_parser_template(G, a)
        w == write_file(e2.fs, dir, file_path)
    IN IF e1.err # "" THEN Generated(used, NoSource, e1.fs, Out("error", NoPath, NoPath, e1.err))
       ELSE IF e2.err # "" THEN Generated(used, NoSource, e2.fs, Out("error", NoPath, NoPath, e2.err))
       ELSE IF parser_code.st # "ok"
       THEN Generated(a.used, parser_code, e2.fs, Out("error", NoPath, NoPath, parser_code.st))
       ELSE IF w.err # "" THEN Generated(a.used, parser_code, w.fs, Out("error", NoPath, NoPath, w.err))
       ELSE Generated(a.used, parser_code, w.fs, Out("ok", file_path, join(dir, file_path), ""))

(***************************************************************************)
(* The emitted parser at run time: M is the sequence of emitted routines.  *)
(* Calling a routine that the source does not define raises                *)
(* AttributeError.  Each run_ operator is the body of one template.        *)
(***************************************************************************)
Defined(M, r) == \E i \in DOMAIN M : M[i].r = r

MethodOf(M, r) == M[CHOOSE i \in DOMAIN M : M[i].r = r]

RECURSIVE run(_, _, _)
RECURSIVE run_or_from(_, _, _, _)
RECURSIVE run_conjoined_from(_, _, _, _, _)
RECURSIVE run_forced(_, _, _, _, _)
RECURSIVE run_while(_, _, _, _)
RECURSIVE run_for(_, _, _, _, _)

run_literal(text0, m) ==
    LET text == strip(text0)
    IN IF startswith(text, m.value)
       THEN ParseResult(ASTNode("Literal", StrVal(m.value), m.name),
                        SliceFrom(text, Len(m.value)))
       ELSE NoMatch

run_regexp(text0, m) ==
    LET text == strip(text0)
        n == ReMatch(m.pattern, text)
    IN IF n >= 0
       THEN ParseResult(ASTNode("RegExp", StrVal(SubSeq(text, 1, n)), m.name),
                        SliceFrom(text, n))
       ELSE NoMatch

run_optional(M, text, m) ==
    LET result == run(M, text, m.calls[1])
    IN IF Raised(result) THEN result
       ELSE IF Matched(result)
       THEN ParseResult(ASTNode("Optional", ListVal(<<result.value>>), m.name),
                        result.remaining)
       ELSE ParseResult(ASTNode("Optional", ListVal(<<None>>), m.name), text)

run_or_from(M, text, m, i) ==
    IF i > Len(m.calls) THEN NoMatch
    ELSE LET result == run(M, text, m.calls[i])
         IN IF Raised(result) THEN result
            ELSE IF Matched(result)
            THEN ParseResult(ASTNode("Or", ListVal(<<result.value>>), m.name),
                             result.remaining)
            ELSE run_or_from(M, text, m, i + 1)

run_conjoined_from(M, current_text, values, m, i) ==
    IF i > Len(m.calls)
    THEN ParseResult(ASTNode("Conjoined", ListVal(values), m.name), current_text)
    ELSE LET result == run(M, current_text, m.calls[i])
         IN IF Raised(result) THEN result
            ELSE IF Failed(result) THEN NoMatch
            ELSE run_conjoined_from(M, result.remaining, Append(values, result.value),
                                    m, i + 1)

run_forced(M, n, current_text, values, m) ==
    IF n <= 0 THEN Loop("ok", current_text, values, "")
    ELSE LET result == run(M, current_text, m.calls[1])
         IN IF Raised(result) THEN Loop("error", current_text, values, result.err)
            ELSE IF Failed(result) THEN Loop("nomatch", current_text, values, "")
            ELSE run_forced(M, n - 1, strip(result.remaining),
                            Append(values, result.value), m)

run_while(M, current_text, values, m) ==
    IF current_text = <<>> THEN Loop("ok", current_text, values, "")
    ELSE LET result == run(M, current_text, m.calls[1])
         IN IF Raised(result) THEN Loop("error", current_text, values, result.err)
            ELSE IF Failed(result) THEN Loop("ok", current_text, values, "")
            ELSE IF current_text = strip(result.remaining)
            THEN Loop("ok", current_text, Append(values, result.value), "")
            ELSE run_while(M, strip(result.remaining), Append(values, result.value), m)

run_for(M, n, current_text, values, m) ==
    IF n <= 0 THEN Loop("ok", current_text, values, "")
    ELSE LET result == run(M, current_text, m.calls[1])
         IN IF Raised(result) THEN Loop("error", current_text, values, result.err)
            ELSE IF Failed(result) THEN Loop("ok", current_text, values, "")
            ELSE run_for(M, n - 1, strip(result.remaining),
                         Append(values, result.value), m)

run_minmax(M, text, m) ==
    LET forced == run_forced(M, m.min, strip(text), <<>>, m)
        more == IF m.max = 0
                THEN run_while(M, forced.current_text, forced.values, m)
                ELSE run_for(M, m.max - m.min, forced.current_text, forced.values, m)
    IN IF forced.st = "error" THEN Raise(forced.err)
       ELSE IF forced.st = "nomatch" THEN NoMatch
       ELSE IF more.st = "error" THEN Raise(more.err)
       ELSE ParseResult(ASTNode("Minmax", ListVal(more.values), m.name), more.current_text)

\* self._parse_<rule_id>(text)
run(M, text, r) ==
    IF ~Defined(M, r) THEN Raise("AttributeError")
    ELSE LET m == MethodOf(M, r)
         IN CASE m.template = "Literal" -> run_literal(text, m)
              [] m.template = "RegExp" -> run_regexp(text, m)
              [] m.template = "Optional" -> run_optional(M, text, m)
              [] m.template = "Or" -> run_or_from(M, text, m, 1)
              [] m.template = "Conjoined" -> run_conjoined_from(M, strip(text), <<>>, m, 1)
              [] OTHER -> run_minmax(M, text, m)

\* The templates write the value of a Literal between double quotes and the
\* pattern of a RegExp between r" and ": the emitted file is Python source
\* only if no value and no pattern holds a double quote.  (No value of the
\* model holds a backslash or a line end.)
Loads(src) ==
    \A i \in DOMAIN src.methods :
        /\ \A k \in DOMAIN src.methods[i].value : src.methods[i].value[k] # "\""
        /\ src.methods[i].pattern # EscapedPattern(DoubleQuoted)

\* import of the emitted file, then parse of the emitted class: the result is
\* returned without a grammar node
run_parse(src, text0) ==
    LET text == _clean_text_from(src.ignore_rules, 1, text0)
        result == run(src.methods, text, src.root)
    IN IF ~Loads(src) THEN Outcome("error", None, "SyntaxError", <<>>, <<>>)
       ELSE IF Raised(result) THEN Outcome("error", None, result.err, <<>>, <<>>)
       ELSE IF Failed(result) THEN Outcome("error", None, "ValueError", text, <<>>)
       ELSE IF strip(result.remaining) # <<>>
       THEN Outcome("error", None, "ValueError", result.remaining, <<>>)
       ELSE Outcome("ok", ast(result.value), "", <<>>, <<>>)

(***************************************************************************)
(* Walkers (src/src/walk.py).  A walker holds the handlers registered with *)
(* for_node, by node type; a handler is one of those the tests register:   *)
(* "structured" returns StructuredOutput(node.get("processed_value", [])), *)
(* "processed" returns node.get("processed_value", []), "value" returns    *)
(* node["value"].  No default handler, pre-processor or post-processor is  *)
(* registered.  A walked value is held with the name of its Python type.   *)
(***************************************************************************)
PyValue(ty, sv, iv, items) == [ty |-> ty, sv |-> sv, iv |-> iv, items |-> items]

PyNone == PyValue("NoneType", <<>>, 0, <<>>)

\* a dictionary or a value of the tree, as a walked value when no handler
\* has changed it
RECURSIVE Unwalked(_)
Unwalked(node) ==
    CASE node.obj = "None" -> PyNone
      [] node.obj = "list" -> PyValue("list", <<>>, 0, [i \in DOMAIN node.items |-> Unwalked(node.items[i])])
      [] OTHER -> PyValue("dict", <<>>, 0, <<>>)

\* node["value"]
ValueOf(node) ==
    CASE node.vk = "str" -> PyValue("str", node.sv, 0, <<>>)
      [] node.vk = "int" -> PyValue("int", <<>>, node.iv, <<>>)
      [] OTHER -> PyValue("list", <<>>, 0, [i \in DOMAIN node.items |-> Unwalked(node.items[i])])

TypedASTWalker(output_type, handlers) == [output_type |-> output_type, handlers |-> handlers]

\* ASTWalker.walk
RECURSIVE walk(_, _)
walk(W, ast_node) ==
    CASE ast_node.obj = "None" -> PyNone
      [] ast_node.obj = "list" ->
            PyValue("list", <<>>, 0, [i \in DOMAIN ast_node.items |-> walk(W, ast_node.items[i])])
      [] OTHER ->
            LET processed_value ==
                    IF ast_node.vk = "list"
                    THEN [i \in DOMAIN ast_node.items |-> walk(W, ast_node.items[i])]
                    ELSE <<>>
                handler == IF ast_node.type \in DOMAIN W.handlers
                           THEN W.handlers[ast_node.type] ELSE "_default_process"
            IN CASE handler = "structured" -> PyValue("StructuredOutput", <<>>, 0, processed_value)
                 [] handler = "processed" -> PyValue("list", <<>>, 0, processed_value)
                 [] handler = "value" -> ValueOf(ast_node)
                 [] OTHER -> PyValue("dict", <<>>, 0, processed_value)

\* what a walk leaves: the value returned or the exception raised
Walked(st, value, err) == [st |-> st, value |-> value, err |-> err]

\* TypedASTWalker.walk: the type of the result is tested when the walked tree
\* is a dictionary whose name is "CommandLineParser"
typed_walk(W, tree) ==
    IF tree.obj = "dict" /\ tree.name = "CommandLineParser" /\ walk(W, tree).ty # W.output_type
    THEN Walked("error", PyNone, "TypeError")
    ELSE Walked("ok", walk(W, tree), "")

(***************************************************************************)
(* Grammars and texts of the model                                         *)
(***************************************************************************)
RECURSIVE TextsOfLen(_, _)
TextsOfLen(alphabet, n) ==
    IF n = 0 THEN {<<>>}
    ELSE {Append(t, c) : t \in TextsOfLen(alphabet, n - 1), c \in alphabet}

Texts == UNION {TextsOfLen(Chars, n) : n \in 0..MaxLen}

Counts == 0..MaxCount

Leaves == {Literal(<<"a">>), Literal(<<"a", "a">>), RegExp("[a-z]+"), RegExp("[a-z]*"),
           Number, String, Me}

\* a leaf alone, a composite over leaves, a composite over one shared leaf
FlatRules ==
    {<<l>> : l \in Leaves}
    \cup {<<Optional(2), l>> : l \in Leaves}
    \cup {<<Dependency(2), l>> : l \in Leaves}
    \cup {<<GenericMinmax(2, mn, mx), l>> : mn \in Counts, mx \in Counts, l \in Leaves}
    \cup {<<Or(<<2, 3>>), l1, l2>> : l1 \in Leaves, l2 \in Leaves}
    \cup {<<Conjoined(<<2, 3>>), l1, l2>> : l1 \in Leaves, l2 \in Leaves}
    \cup {<<Or(<<2, 2>>), l>> : l \in Leaves}
    \cup {<<Conjoined(<<2, 2>>), l>> : l \in Leaves}

\* deeper graphs: nesting through Me, repetition of a rule that can match
\* nothing, an instance shared by two parents, display names
DeepRules ==
    {<<Conjoined(<<2, 3, 4>>), Literal(<<"a">>), Or(<<5, 6>>), Literal(<<"a">>), Me, Number>>,
     <<GenericMinmax(2, 0, 0), Optional(3), Literal(<<"a">>)>>,
     <<GenericMinmax(2, 1, 0), Or(<<3, 4>>), RegExp("[a-z]+"), RegExp("\\d+")>>,
     <<Or(<<2, 3>>), Conjoined(<<4, 5>>), Optional(4), Literal(<<"a">>), Number>>,
     <<with_name(Optional(2), "Maybe"), with_name(GenericMinmax(3, 1, 2), "Some"),
       with_name(Literal(<<"a">>), "A")>>,
     <<Conjoined(<<2, 3>>), GenericMinmax(4, 0, 0), Optional(4), Literal(<<"a">>)>>}

RuleTables == FlatRules \cup DeepRules

Ignores == {<<>>, <<Literal(<<" ">>)>>}

\* a grammar class: its rule graph, its ignore rules, whether it has a transform hook
Grammar(name, rules, ignore) ==
    [name |-> name, rules |-> rules, ignore |-> ignore, transform |-> FALSE]

with_transform(G) == [G EXCEPT !.transform = TRUE]

Grammars ==
    {Grammar("G", R, ig) : R \in RuleTables, ig \in Ignores}
    \cup {with_transform(Grammar("G", R, ig)) :
              R \in DeepRules \cup {<<l>> : l \in Leaves}, ig \in Ignores}

\* output directories of a generator: none, relative, absolute, the working
\* directory itself
OutputDirs == {NoPath, <<"out">>, <<"", "abs">>, Cwd}

\* output files of a generate call: none, a file name, a directory named with
\* a trailing "/", a directory that exists, an absolute file, a file in a
\* directory
OutputFiles == {NoPath, <<"p.py">>, <<"sub", "">>, <<"d">>, <<"", "abs", "x.py">>,
                <<"sub", "p.py">>}

\* file systems a generate call starts from
Disks == {EmptyFs,
          FileSystem({<<"">>, Cwd, <<"", "work", "d">>, <<"", "work", "sub">>, <<"", "abs">>}, {})}

\* grammars the generator is run on when the paths vary
FileGrammars ==
    {Grammar("G", <<RegExp("[a-z]+")>>, <<>>),
     Grammar("G", <<Optional(2), Literal(<<"a">>)>>, <<Literal(<<" ">>)>>),
     Grammar("G", <<Conjoined(<<2, 2>>), Literal(<<"a">>)>>, <<>>)}

\* Sequence(Literal("("), Alternation(SelfReference, Pattern("\d+")), Literal(")"))
NestedGrammar ==
    Grammar("G", <<Conjoined(<<2, 3, 6>>), Literal(<<"(">>), Or(<<4, 5>>), Me, RegExp("\\d+"),
                   Literal(<<")">>)>>, <<>>)

ParenChars == {"(", ")", "1"}

ParenTexts == UNION {TextsOfLen(ParenChars, n) : n \in 0..MaxParenLen}

\* the grammar of src/src/test/simple.py
EnglishSentenceParser ==
    Grammar("EnglishSentenceParser",
            <<Conjoined(<<2, 13>>),
              GenericMinmax(3, 1, 0),
              Conjoined(<<4, 9, 11>>),
              Or(<<5, 8>>),
              with_name(Conjoined(<<6, 7>>), "Formal"),
              RegExp("[A-Z]"),
              RegExp("[a-z]+"),
              with_name(RegExp("[a-z]+"), "Word"),
              with_name(Optional(10), "Punctuation"),
              Literal(<<",">>),
              with_name(Optional(12), "Whitespace"),
              Literal(<<" ">>),
              with_name(Or(<<14, 15, 16>>), "EndPunctuation"),
              Literal(<<".">>),
              Literal(<<"!">>),
              Literal(<<"?">>)>>,
            <<>>)

\* the ten inputs of the test of src/src/test/simple.py
TestSentences ==
    {<<"H", "e", "l", "l", "o", ",", " ", "w", "o", "r", "l", "d", "!">>,
     <<"T", "h", "i", "s", " ", "i", "s", " ", "a", " ", "t", "e", "s", "t", ".">>,
     <<"H", "o", "w", " ", "a", "r", "e", " ", "y", "o", "u", "?">>,
     <<"I", " ", "a", "m", " ", "f", "i", "n", "e", ".">>,
     <<"W", "h", "a", "t", " ", "a", "b", "o", "u", "t", " ", "y", "o", "u", "?">>,
     <<"T", "h", "i", "s", " ", "i", "s", " ", "a", " ", "t", "e", "s", "t", " ", "s",
       "e", "n", "t", "e", "n", "c", "e", ".">>,
     <<"T", "h", "i", "s", " ", "i", "s", " ", "a", "n", "o", "t", "h", "e", "r", " ",
       "t", "e", "s", "t", " ", "s", "e", "n", "t", "e", "n", "c", "e", ".">>,
     <<"T", "h", "i", "s", " ", "i", "s", " ", "y", "e", "t", " ", "a", "n", "o", "t",
       "h", "e", "r", " ", "t", "e", "s", "t", " ", "s", "e", "n", "t", "e", "n", "c",
       "e", ".">>,
     <<"T", "h", "i", "s", " ", "i", "s", " ", "t", "h", "e", " ", "l", "a", "s", "t",
       " ", "t", "e", "s", "t", " ", "s", "e", "n", "t", "e", "n", "c", "e", ".">>,
     <<"T", "h", "i", "s", "!", " ", "S", "h", "o", "u", "l", "d", " ", "n", "o", "t",
       ",", " ", "!", "p", "a", "r", "s", "e", ".">>}

SentenceChars == {"A", "a", ",", " ", ".", "!"}

SentenceTexts == UNION {TextsOfLen(SentenceChars, n) : n \in 0..MaxSentenceLen}

\* the rule graph of src/src/test/cli.py: one or more of option_with_value
\* (3), flag (13), string (18); the three uses of string are one instance
CommandLineRules ==
    <<GenericMinmax(2, 1, 0),
      Or(<<3, 13, 18>>),
      Conjoined(<<4, 7, 8>>),
      Or(<<5, 6>>),
      Literal(<<"-">>),
      Literal(<<"-", "-">>),
      RegExp(OptionName),
      Or(<<9, 11>>),
      Conjoined(<<10, 18>>),
      Literal(<<"=">>),
      Conjoined(<<12, 18>>),
      Literal(<<" ">>),
      Conjoined(<<14, 17>>),
      Or(<<15, 16>>),
      Literal(<<"-">>),
      Literal(<<"-", "-">>),
      RegExp(OptionName),
      Or(<<19, 23, 27>>),
      Conjoined(<<20, 21, 22>>),
      Literal(<<"\"">>),
      RegExp(DoubleQuoted),
      Literal(<<"\"">>),
      Conjoined(<<24, 25, 26>>),
      Literal(<<"'">>),
      RegExp(SingleQuoted),
      Literal(<<"'">>),
      RegExp(BareWord)>>

CommandLineParser == Grammar("CommandLineParser", CommandLineRules, <<>>)

\* the same grammar in a class of another name
CliGrammars == {CommandLineParser, Grammar("G", CommandLineRules, <<>>)}

\* the four command lines of the test of src/src/test/cli.py
TestCommandLines ==
    {<<"p", "y", "t", "h", "o", "n", " ", "-", "m", " ", "s", "r", "c", ".", "p", "a",
       "r", "s", "e", "r", " ", "-", "-", "h", "e", "l", "p">>,
     <<"p", "y", "t", "h", "o", "n", " ", "-", "m", " ", "s", "r", "c", ".", "p", "a",
       "r", "s", "e", "r", " ", "-", "-", "h", "e", "l", "p", " ", "-", "-", "v", "e",
       "r", "b", "o", "s", "e">>,
     <<"e", "c", "h", "o", " ", "'", "H", "e", "l", "l", "o", ",", " ", "W", "o", "r",
       "l", "d", "!", "'", " ", "-", "-", "f", "l", "a", "g">>,
     <<"p", "y", "t", "h", "o", "n", " ", "-", "m", " ", "s", "r", "c", ".", "p", "a",
       "r", "s", "e", "r", " ", "-", "-", "h", "e", "l", "p", " ", "-", "-", "v", "e",
       "r", "b", "o", "s", "e", " ", "-", "-", "f", "l", "a", "g", " ", "-", "-", "o",
       "p", "t", "i", "o", "n", "=", "v", "a", "l", "u", "e", " ", "-", "-", "a", "n",
       "o", "t", "h", "e", "r", "-", "o", "p", "t", "i", "o", "n", " ", "'", "a", "r",
       "g", "1", "'", " ", "'", "a", "r", "g", "2", "'">>}

\* more command lines: an option with "=", an option followed by its value,
\* a flag after a word, quoted strings
CommandLines ==
    {<<"-", "-", "a", "=", "a">>,
     <<"-", "-", "a", " ", "a">>,
     <<"a", " ", "-", "a">>,
     <<"-", "a", "=", "a">>,
     <<"'", "a", "'", " ", "\"", "a", "\"">>,
     <<"-", "-", "a", " ", "'", "a", " ", "a", "'">>}

CliChars == {"a", "-", "=", " ", "'"}

CliTexts == UNION {TextsOfLen(CliChars, n) : n \in 0..MaxCliLen}

\* the handlers of the transformer of the test, the root's handler registered
\* for the class name of the grammar
TestHandlers(root) ==
    [t \in {"CommandLineParser", "G", "Minmax", "Or", "Conjoined", "Literal", "RegExp"} |->
        CASE t \in {"CommandLineParser", "G"} -> root
          [] t \in {"Minmax", "Or", "Conjoined"} -> "processed"
          [] OTHER -> "value"]

\* the walker of the test, one whose root handler returns a list, and one
\* with no handler for the root
Walkers ==
    {TypedASTWalker("StructuredOutput", TestHandlers("structured")),
     TypedASTWalker("StructuredOutput", TestHandlers("processed")),
     TypedASTWalker("StructuredOutput", [t \in {"Literal", "RegExp"} |-> "value"])}

\* the leaf rules and the rules that hold one, with and without display name,
\* for texts of letters, blanks, digits and double quotes
LeafChars == {"a", " ", "0", "1", "\""}

LeafTexts == UNION {TextsOfLen(LeafChars, n) : n \in 0..MaxLeafLen}

NamedLeaves ==
    {Number, String, Literal(<<"a">>), Literal(<<" ">>), Literal(<<" ", "a">>),
     RegExp("\\d+"), RegExp("[a-z]*"),
     with_name(Number, "N"), with_name(String, "S"), with_name(Literal(<<"a">>), "A"),
     with_name(RegExp("\\d+"), "D")}

LeafRules ==
    {<<l>> : l \in NamedLeaves}
    \cup {<<Or(<<2, 3>>), Literal(<<"a">>), Number>>,
          <<Optional(2), Number>>,
          <<Conjoined(<<2, 3>>), Literal(<<"a">>), Number>>,
          <<Conjoined(<<2, 3, 4>>), Literal(<<"a">>), Literal(<<" ">>), String>>,
          <<GenericMinmax(2, 0, 0), Number>>,
          <<with_name(Or(<<2, 3>>), "O"), Literal(<<"a">>), RegExp("\\d+")>>,
          <<with_name(Optional(2), "P"), Literal(<<"a">>)>>,
          <<with_name(Conjoined(<<2, 3>>), "C"), Literal(<<"a">>), RegExp("[a-z]*")>>,
          <<with_name(GenericMinmax(2, 1, 2), "M"), Literal(<<"a">>)>>,
          <<with_name(Dependency(2), "Dep"), Literal(<<"a">>)>>,
          <<Conjoined(<<2, 3>>), Literal(<<"\"">>), Optional(4), with_name(Me, "Self")>>}

\* no ignore rule, the blank, two literals of which the second parts an
\* occurrence of the first, a literal of two characters
LeafIgnores ==
    {<<>>, <<Literal(<<" ">>)>>, <<Literal(<<" ", "a">>), Literal(<<"1">>)>>,
     <<Literal(<<"a", "a">>)>>}

LeafGrammars == {Grammar("G", R, ig) : R \in LeafRules, ig \in LeafIgnores}

\* rule graphs for the steps of the interpreter: repetitions of every leaf,
\* of a rule that matches nothing and of Me; Me first, after a rule that
\* consumes text and after one that need not
StepRules ==
    DeepRules
    \cup {<<l>> : l \in Leaves}
    \cup {<<GenericMinmax(2, mn, 0), l>> : mn \in Counts, l \in Leaves}
    \cup {<<GenericMinmax(2, 0, MaxCount), l>> : l \in Leaves}
    \cup {<<Or(<<2, 3>>), l1, l2>> : l1 \in {Me, Literal(<<"a">>)}, l2 \in Leaves}
    \cup {<<Conjoined(<<2, 3>>), l, Me>> : l \in Leaves}
    \cup {<<Optional(2), Me>>, <<Dependency(2), Me>>,
          <<Conjoined(<<2, 3>>), Literal(<<"a">>), Optional(4), Me>>,
          <<Conjoined(<<2, 3>>), Number, GenericMinmax(4, 0, 0), Me>>}

StepGrammars == {Grammar("G", R, ig) : R \in StepRules, ig \in Ignores}

NoCall == [r |-> 0, text |-> <<>>, result |-> NoMatch]

(***************************************************************************)
(* The state machine: a grammar class and an input text; the caller parses *)
(* the text with the interpreter, applies one rule to it, or generates the *)
(* standalone parser and runs it on the text.                              *)
(***************************************************************************)
\* no walker, and no result of a walk
NoWalker == TypedASTWalker("", <<>>)

NotWalked == Walked("none", PyNone, "")

\* the state before any operation, for the grammars and texts at hand
Start ==
    /\ pc = "ready"
    /\ parsed = NotRun
    /\ call = NoCall
    /\ used_rules = {}
    /\ generated = NoSource
    /\ genParsed = NotRun
    /\ outcome = NoOut
    /\ walked = NotWalked
    /\ frames = <<>>
    /\ reply = NoReply

Init ==
    /\ grammar \in Grammars
    /\ input \in Texts
    /\ output_dir = NoPath
    /\ output_file = NoPath
    /\ disk = EmptyFs
    /\ walker = NoWalker
    /\ Start

\* Parser(grammar).parse(input)
Parse ==
    /\ pc = "ready"
    /\ parsed' = parse(grammar, input)
    /\ pc' = "parsed"
    /\ UNCHANGED <<inputs, machine, call, used_rules, generated, genParsed, disk, outcome, walked>>

\* Parser(grammar)._apply_rule(input, rule) for a rule of the grammar
Apply(r) ==
    /\ pc = "ready"
    /\ call' = [r |-> r, text |-> input, result |-> _apply_rule(grammar.rules, input, r, {})]
    /\ pc' = "applied"
    /\ UNCHANGED <<inputs, machine, parsed, used_rules, generated, genParsed, disk, outcome, walked>>

\* generator.generate(output_file), where generator is the one
\* ParserGenerator(grammar, output_dir) the caller keeps: its RuleProcessor and
\* so used_rules live as long as it does
Generate ==
    /\ pc \in {"ready", "generated", "regenerated"}
    /\ \E g \in {generate(grammar, ParserGenerator(output_dir), output_file, used_rules, disk)} :
          /\ used_rules' = g.used
          /\ generated' = g.source
          /\ disk' = g.fs
          /\ outcome' = g.out
    /\ pc' = IF pc = "ready" THEN "generated" ELSE "regenerated"
    /\ UNCHANGED <<inputs, machine, parsed, call, genParsed, walked>>

\* Parser.generate(grammar, output_dir, output_file), called after the kept
\* generator has been used: a new ParserGenerator at each call
ParserGenerate ==
    /\ pc \in {"generated", "regenerated"}
    /\ \E g \in {generate(grammar, ParserGenerator(output_dir), output_file, {}, disk)} :
          /\ generated' = g.source
          /\ disk' = g.fs
          /\ outcome' = g.out
    /\ pc' = "regenerated"
    /\ UNCHANGED <<inputs, machine, parsed, call, used_rules, genParsed, walked>>

\* <grammar>Parser().parse(input), with the class of the file the first call wrote
RunGenerated ==
    /\ pc = "generated"
    /\ outcome.st = "ok"
    /\ genParsed' = run_parse(generated, input)
    /\ pc' = "ran"
    /\ UNCHANGED <<inputs, machine, parsed, call, used_rules, generated, disk, outcome, walked>>

\* walker.walk(result), for the result of a parse
Walk ==
    /\ pc = "parsed"
    /\ parsed.st = "ok"
    /\ walked' = typed_walk(walker, parsed.ast)
    /\ pc' = "walked"
    /\ UNCHANGED <<inputs, machine, parsed, call, used_rules, generated, genParsed, disk, outcome>>

Next ==
    \/ Parse
    \/ \E r \in DOMAIN grammar.rules : Apply(r)
    \/ Generate
    \/ ParserGenerate
    \/ RunGenerated

Spec == Init /\ [][Next]_vars

\* the same operations, for every output directory, output file and file system
InitFiles ==
    /\ grammar \in FileGrammars
    /\ input \in {<<>>, <<"a">>}
    /\ output_dir \in OutputDirs
    /\ output_file \in OutputFiles
    /\ disk \in Disks
    /\ walker = NoWalker
    /\ Start

SpecFiles == InitFiles /\ [][Next]_vars

\* the same operations, for the grammar of nested parentheses and every text
\* of parentheses and digits
InitNested ==
    /\ grammar = NestedGrammar
    /\ input \in ParenTexts
    /\ output_dir = NoPath
    /\ output_file = NoPath
    /\ disk = EmptyFs
    /\ walker = NoWalker
    /\ Start

SpecNested == InitNested /\ [][Next]_vars

\* parsing a command line and walking the tree, for the grammar of command
\* lines under two class names and for the walkers
InitCli ==
    /\ grammar \in CliGrammars
    /\ input \in TestCommandLines \cup CommandLines \cup CliTexts
    /\ output_dir = NoPath
    /\ output_file = NoPath
    /\ disk = EmptyFs
    /\ walker \in Walkers
    /\ Start

NextCli == Parse \/ Walk

SpecCli == InitCli /\ [][NextCli]_vars

\* the same operations, for the grammar of English sentences, the sentences
\* of its test and every short text of its characters
InitEnglish ==
    /\ grammar = EnglishSentenceParser
    /\ input \in TestSentences \cup SentenceTexts
    /\ output_dir = NoPath
    /\ output_file = NoPath
    /\ disk = EmptyFs
    /\ walker = NoWalker
    /\ Start

SpecEnglish == InitEnglish /\ [][Next]_vars

\* the same operations, for the leaf rules and the texts of their characters
InitLeaves ==
    /\ grammar \in LeafGrammars
    /\ input \in LeafTexts
    /\ output_dir = NoPath
    /\ output_file = NoPath
    /\ disk = EmptyFs
    /\ walker = NoWalker
    /\ Start

SpecLeaves == InitLeaves /\ [][Next]_vars

(***************************************************************************)
(* Parser.parse step by step: the same parse as Parse, one call or one     *)
(* return of _apply_rule at a time.                                        *)
(***************************************************************************)
\* the routine on top of the stack, and its next move
Top == frames[Len(frames)]

TopMove == next_move(grammar.rules, Top, reply)

\* parse up to its call of _parse_with_rules: the text is cleaned and the
\* root rule is applied to it
Begin ==
    /\ pc = "ready"
    /\ frames' = <<Frame(1, _clean_text(grammar, input))>>
    /\ reply' = NoReply
    /\ pc' = "parsing"
    /\ UNCHANGED <<inputs, parsed, call, used_rules, generated, genParsed, disk, outcome,
                   walked>>

\* the routine on top calls _apply_rule for a sub-rule
Descend ==
    /\ pc = "parsing"
    /\ frames # <<>>
    /\ TopMove.do = "call"
    /\ Len(frames) < MaxDepth
    /\ Len(TopMove.frame.values) <= MaxCaptured
    /\ frames' = Append([frames EXCEPT ![Len(frames)] = TopMove.frame],
                        Frame(TopMove.r, TopMove.text))
    /\ reply' = NoReply
    /\ UNCHANGED <<inputs, pc, parsed, call, used_rules, generated, genParsed, disk, outcome,
                   walked>>

\* the call finds the stack exhausted: RecursionError unwinds every routine
Overflow ==
    /\ pc = "parsing"
    /\ frames # <<>>
    /\ TopMove.do = "call"
    /\ Len(frames) >= MaxDepth
    /\ frames' = <<>>
    /\ reply' = Raise("RecursionError")
    /\ UNCHANGED <<inputs, pc, parsed, call, used_rules, generated, genParsed, disk, outcome,
                   walked>>

\* the routine on top returns to its caller
Return ==
    /\ pc = "parsing"
    /\ frames # <<>>
    /\ TopMove.do = "return"
    /\ frames' = SubSeq(frames, 1, Len(frames) - 1)
    /\ reply' = TopMove.result
    /\ UNCHANGED <<inputs, pc, parsed, call, used_rules, generated, genParsed, disk, outcome,
                   walked>>

\* the root rule has returned: parse raises, or calls the hooks and returns
Conclude ==
    /\ pc = "parsing"
    /\ frames = <<>>
    /\ parsed' = parse_end(grammar, _clean_text(grammar, input), reply)
    /\ reply' = NoReply
    /\ pc' = "parsed"
    /\ UNCHANGED <<inputs, frames, call, used_rules, generated, genParsed, disk, outcome,
                   walked>>

InitSteps ==
    /\ grammar \in StepGrammars
    /\ input \in Texts
    /\ output_dir = NoPath
    /\ output_file = NoPath
    /\ disk = EmptyFs
    /\ walker = NoWalker
    /\ Start

NextSteps == Begin \/ Descend \/ Overflow \/ Return \/ Conclude

\* Python runs the one thread of parse until it returns or raises
SpecSteps == InitSteps /\ [][NextSteps]_vars /\ WF_vars(NextSteps)

(***************************************************************************)
(* Notions the properties below are stated with                            *)
(***************************************************************************)
\* the rule instances a rule holds: its sub-rules, or the rule it wraps
Children(rule) ==
    {rule.rules[i] : i \in DOMAIN rule.rules} \cup (IF rule.rule # 0 THEN {rule.rule} ELSE {})

RECURSIVE ReachFrom(_, _)
ReachFrom(R, S) ==
    LET S2 == S \cup UNION {Children(R[r]) : r \in S}
    IN IF S2 = S THEN S ELSE ReachFrom(R, S2)

\* the rule instances reachable from the root rule
Reachable(R) == ReachFrom(R, {1})

\* the places of the rule graph that hold the instance r
Holders(R, r) ==
    UNION {{<<p, i>> : i \in {j \in 0..Len(R[p].rules) :
                                IF j = 0 THEN R[p].rule = r ELSE R[p].rules[j] = r}} :
           p \in Reachable(R)}

SharedInstances(R) == {r \in Reachable(R) : Cardinality(Holders(R, r)) >= 2}

RoutinesFor(M, r) == {i \in DOMAIN M : M[i].r = r}

IsSuffix(s, t) ==
    /\ Len(s) <= Len(t)
    /\ SubSeq(t, Len(t) - Len(s) + 1, Len(t)) = s

(***************************************************************************)
(* C1: for every grammar and input, the AST of the emitted parser is       *)
(* identical from the root node down to the AST of the interpreter, and    *)
(* the emitted parser fails on exactly the inputs the interpreter fails on *)
(***************************************************************************)
C1_GeneratedEqualsInterpreted ==
    pc = "ran" =>
        LET interpreted == parse(grammar, input)
        IN /\ (genParsed.st = "ok") <=> (interpreted.st = "ok")
           /\ genParsed.st = "ok" => genParsed.ast = interpreted.ast

(***************************************************************************)
(* C2: the emitted source defines one routine for every rule instance      *)
(* reachable from the root rule, whatever its variant, so every routine    *)
(* that is called is defined                                               *)
(***************************************************************************)
C2_RoutinePerReachableRule ==
    (pc = "generated" /\ generated.st = "ok") =>
        /\ \A r \in Reachable(grammar.rules) :
              Cardinality(RoutinesFor(generated.methods, r)) = 1
        /\ Defined(generated.methods, generated.root)
        /\ \A i \in DOMAIN generated.methods :
              \A j \in DOMAIN generated.methods[i].calls :
                 Defined(generated.methods, generated.methods[i].calls[j])

(***************************************************************************)
(* C3: when a rule instance is held more than once in the rule graph,      *)
(* generation completes without error, emits exactly one routine for the   *)
(* instance, and the routine of every holder calls that routine            *)
(***************************************************************************)
C3_SharedInstanceOneRoutine ==
    (pc = "generated" /\ SharedInstances(grammar.rules) # {}) =>
        /\ generated.st = "ok"
        /\ \A r \in SharedInstances(grammar.rules) :
              /\ Cardinality(RoutinesFor(generated.methods, r)) = 1
              /\ \A h \in Holders(grammar.rules, r) :
                    /\ Defined(generated.methods, h[1])
                    /\ \E j \in DOMAIN MethodOf(generated.methods, h[1]).calls :
                          MethodOf(generated.methods, h[1]).calls[j] = r

(***************************************************************************)
(* The remainders a rule admits on a text when every choice is open: any   *)
(* alternative of an Or, the rule of an Optional taken or not, any number  *)
(* of repetitions within the bounds.  Leaves match as the interpreter      *)
(* matches them.                                                           *)
(***************************************************************************)
RECURSIVE Admits(_, _, _, _)
RECURSIVE AdmitsAll(_, _, _, _, _)
RECURSIVE AdmitsTimes(_, _, _, _, _, _)

\* the remainders after the sub-rules i.. of a Conjoined, started on any text of S
AdmitsAll(R, S, rs, i, active) ==
    IF i > Len(rs) THEN S
    ELSE AdmitsAll(R, UNION {Admits(R, t, rs[i], active) : t \in S}, rs, i + 1, active)

\* the remainders after k applications, for every k in lo..hi, k applications
\* having led to the texts of S
AdmitsTimes(R, S, r, k, lo_hi, active) ==
    LET here == IF k >= lo_hi[1] THEN S ELSE {}
    IN IF k >= lo_hi[2] \/ S = {} THEN here
       ELSE here \cup AdmitsTimes(R, {strip(rem) : rem \in UNION {Admits(R, t, r, active) : t \in S}},
                                  r, k + 1, lo_hi, active)

Admits(R, text, r, active) ==
    LET rule == R[r]
    IN CASE rule.kind \in {"Number", "String", "Literal", "RegExp"} ->
               LET result == _apply_rule(R, text, r, {})
               IN IF Matched(result) THEN {result.remaining} ELSE {}
         [] rule.kind = "Optional" -> Admits(R, text, rule.rule, active) \cup {text}
         [] rule.kind = "Or" ->
               UNION {Admits(R, text, rule.rules[i], active) : i \in DOMAIN rule.rules}
         [] rule.kind = "Conjoined" -> AdmitsAll(R, {strip(text)}, rule.rules, 1, active)
         [] rule.kind = "Dependency" -> Admits(R, text, rule.rule, active)
         [] rule.kind = "Me" ->
               IF text \in active THEN {} ELSE Admits(R, text, 1, active \cup {text})
         [] rule.kind = "GenericMinmax" ->
               AdmitsTimes(R, {strip(text)}, rule.rule, 0,
                           <<rule.min_count,
                             IF rule.max_count = 0 THEN rule.min_count + Len(text) + 1
                             ELSE IF rule.max_count > rule.min_count THEN rule.max_count
                             ELSE rule.min_count>>, active)
         [] OTHER -> {}

\* the root rule admits a match of the cleaned input that leaves only whitespace
AdmitsFullMatch(G, text0) ==
    LET text == _clean_text(G, text0)
    IN \E rem \in Admits(G.rules, text, 1, {text}) : strip(rem) = <<>>

CalledRule == grammar.rules[call.r]

AppliedKind(kind) == pc = "applied" /\ CalledRule.kind = kind

\* the result of the i-th alternative of the called Or on the recorded text
Alternative(i) == _apply_rule(grammar.rules, call.text, CalledRule.rules[i], {})

\* the trimmed text left by k successive applications of the called
\* repetition's rule, the first on the trimmed recorded text
RECURSIVE TextAfter(_)
TextAfter(k) ==
    IF k = 0 THEN strip(call.text)
    ELSE LET result == _apply_rule(grammar.rules, TextAfter(k - 1), CalledRule.rule, {})
         IN IF Matched(result) THEN strip(result.remaining) ELSE TextAfter(k - 1)

\* the k-th of these applications
Application(k) == _apply_rule(grammar.rules, TextAfter(k - 1), CalledRule.rule, {})

\* the values the called repetition has captured
Captured == call.result.value.items

(***************************************************************************)
(* C5: an Or tries its alternatives in declared order on the same text and *)
(* its result is that of the first alternative that matches; it returns    *)
(* NoMatch only if every alternative fails                                 *)
(***************************************************************************)
C5_FirstMatchingAlternativeWins ==
    AppliedKind("Or") =>
        LET decided == {i \in DOMAIN CalledRule.rules : ~Failed(Alternative(i))}
            first == CHOOSE i \in decided : \A j \in decided : i <= j
        IN IF decided = {} THEN call.result = NoMatch
           ELSE IF Matched(Alternative(first))
           THEN call.result =
                    ParseResult(ASTNode("Or", ListVal(<<Alternative(first).value>>),
                                        CalledRule.custom_name),
                                Alternative(first).remaining)
           ELSE call.result = Alternative(first)

\* two alternatives match the text differently and the result is the first one's
C5_Witness ==
    /\ AppliedKind("Or")
    /\ Len(CalledRule.rules) = 2
    /\ Matched(Alternative(1))
    /\ Matched(Alternative(2))
    /\ Alternative(1) # Alternative(2)
    /\ Matched(call.result)
    /\ call.result.value.items = <<Alternative(1).value>>

(***************************************************************************)
(* C6: a repetition with max_count # 0 never holds more than max_count     *)
(* captured values, whatever min_count is                                  *)
(***************************************************************************)
C6_AtMostMaxCount ==
    (AppliedKind("GenericMinmax") /\ CalledRule.max_count # 0 /\ Matched(call.result)) =>
        Len(Captured) <= CalledRule.max_count

(***************************************************************************)
(* C8: a repetition returns NoMatch whenever fewer than min_count          *)
(* consecutive applications of its rule succeed, and when it matches it    *)
(* holds at least min_count captured values, in application order          *)
(***************************************************************************)
C8_AtLeastMinCount ==
    (AppliedKind("GenericMinmax") /\ ~Raised(call.result)) =>
        /\ (\E k \in 1..CalledRule.min_count : ~Matched(Application(k)))
              => Failed(call.result)
        /\ Matched(call.result) =>
              /\ Len(Captured) >= CalledRule.min_count
              /\ \A k \in 1..CalledRule.min_count : Captured[k] = Application(k).value

\* a repetition that must match twice has failed after one successful application
C8_Witness ==
    /\ AppliedKind("GenericMinmax")
    /\ CalledRule.min_count = 2
    /\ Matched(Application(1))
    /\ Failed(Application(2))
    /\ Failed(call.result)

(***************************************************************************)
(* C9: applying an Optional never returns NoMatch; when its rule does not  *)
(* match, the result is the absent container and the remaining text is     *)
(* exactly the text passed in.  (The only applications that return nothing *)
(* are those in which the rule itself raises.)                             *)
(***************************************************************************)
C9_PresenceNeverFails ==
    AppliedKind("Optional") =>
        LET inner == _apply_rule(grammar.rules, call.text, CalledRule.rule, {})
        IN /\ ~Failed(call.result)
           /\ ~Raised(inner) => Matched(call.result)
           /\ Failed(inner) =>
                 call.result = ParseResult(ASTNode("Optional", ListVal(<<None>>),
                                                   CalledRule.custom_name), call.text)

\* an absent Optional applied to a text with whitespace at its ends
C9_Witness ==
    /\ AppliedKind("Optional")
    /\ Failed(_apply_rule(grammar.rules, call.text, CalledRule.rule, {}))
    /\ strip(call.text) # call.text
    /\ call.result.remaining = call.text

(***************************************************************************)
(* C10: whenever applying a rule yields a match, the remaining text is a   *)
(* suffix of the text passed to that application                           *)
(***************************************************************************)
C10_RemainingIsSuffix ==
    (pc = "applied" /\ Matched(call.result)) => IsSuffix(call.result.remaining, call.text)

(***************************************************************************)
(* Unbounded repetition: the applications made are the first Len(Captured) *)
(* ones, each successful and each value kept in order                      *)
(***************************************************************************)
UnboundedMatched ==
    /\ AppliedKind("GenericMinmax")
    /\ CalledRule.max_count = 0
    /\ Matched(call.result)

CapturedInOrder ==
    /\ \A k \in 1..Len(Captured) :
          Matched(Application(k)) /\ Captured[k] = Application(k).value
    /\ call.result.remaining = TextAfter(Len(Captured))

\* the last application was made after the forced ones and left the text unchanged
StoppedUnchanged ==
    /\ Len(Captured) > CalledRule.min_count
    /\ TextAfter(Len(Captured)) = TextAfter(Len(Captured) - 1)

\* no application after the forced ones and before the last left the text unchanged
NoEarlierUnchanged ==
    \A k \in (CalledRule.min_count + 1)..(Len(Captured) - 1) : TextAfter(k) # TextAfter(k - 1)

(***************************************************************************)
(* C7 as claimed: with max_count = 0, on every text, an empty remaining    *)
(* text included, the rule keeps being applied after the forced            *)
(* applications until the first application that fails or that succeeds    *)
(* leaving the text unchanged, and the value is the sequence of the values *)
(* of all successful applications up to that point                         *)
(***************************************************************************)
C7_AppliedUntilFailureOrUnchanged ==
    UnboundedMatched =>
        /\ CapturedInOrder
        /\ NoEarlierUnchanged
        /\ StoppedUnchanged \/ Failed(Application(Len(Captured) + 1))

(***************************************************************************)
(* C7 as amended: with max_count = 0 the rule is applied again after the   *)
(* forced applications only while the trimmed remaining text is not empty, *)
(* until the first application that fails or that succeeds leaving the     *)
(* trimmed text unchanged; no application is made on an empty remaining    *)
(* text; the value is the sequence of the values of all successful         *)
(* applications made, the stopping one included                            *)
(***************************************************************************)
C7_AppliedWhileTextRemains ==
    UnboundedMatched =>
        /\ CapturedInOrder
        /\ NoEarlierUnchanged
        /\ \A k \in CalledRule.min_count..(Len(Captured) - 1) : TextAfter(k) # <<>>
        /\ \/ StoppedUnchanged
           \/ TextAfter(Len(Captured)) = <<>>
           \/ Failed(Application(Len(Captured) + 1))

\* the repetition has stopped on an empty text that its rule would have matched
C7_Witness ==
    /\ UnboundedMatched
    /\ Len(Captured) >= 1
    /\ ~StoppedUnchanged
    /\ TextAfter(Len(Captured)) = <<>>
    /\ Matched(Application(Len(Captured) + 1))

(***************************************************************************)
(* C11: lowercase words separated by single spaces                         *)
(***************************************************************************)
\* the pieces of a text between the occurrences of the character sep
RECURSIVE split(_, _)
split(text, sep) ==
    IF \A i \in DOMAIN text : text[i] # sep THEN <<text>>
    ELSE LET k == CHOOSE i \in DOMAIN text :
                      text[i] = sep /\ \A j \in 1..(i - 1) : text[j] # sep
         IN <<SubSeq(text, 1, k - 1)>> \o split(SliceFrom(text, k), sep)

\* one or more non-empty lowercase words, a single space between two words
IsWordLine(text) ==
    \A i \in DOMAIN split(text, " ") :
        LET w == split(text, " ")[i] IN w # <<>> /\ \A j \in DOMAIN w : w[j] \in LowerChars

\* Repetition(Pattern("[a-z]+"), min=1, max=0) with the space as ignore-literal
RepetitionOfWords ==
    /\ grammar.rules = <<GenericMinmax(2, 1, 0), RegExp("[a-z]+")>>
    /\ grammar.ignore = <<Literal(<<" ">>)>>

\* the values of the leaves of the repetition node of the parsed tree
ParsedLeaves == [i \in DOMAIN parsed.ast.items[1].items |-> parsed.ast.items[1].items[i].sv]

\* C11: with the space as ignore-literal and the grammar
\* Repetition(Pattern("[a-z]+"), min=1, max=0), parsing n >= 1 lowercase
\* words separated by single spaces succeeds and yields a repetition of
\* exactly n leaves, one per word, in order.
C11_OneLeafPerWord ==
    (pc = "parsed" /\ RepetitionOfWords /\ IsWordLine(input)) =>
        /\ parsed.st = "ok"
        /\ ParsedLeaves = split(input, " ")

(***************************************************************************)
(* C13: generator traversal of a self-referencing grammar                  *)
(***************************************************************************)
\* the root rule holds a Me as an alternative of an Or
MeUnderOr(R) ==
    \E p \in Reachable(R) :
        /\ R[p].kind = "Or"
        /\ \E i \in DOMAIN R[p].rules : R[R[p].rules[i]].kind = "Me"

\* C13: for every grammar whose root rule contains a SelfReference under an
\* Alternation branch, the generator's traversal ends without error, emits
\* at most one routine per rule instance, and so no more routines than there
\* are rule instances.
C13_SelfReferenceGeneratesBounded ==
    (pc = "generated" /\ MeUnderOr(grammar.rules)) =>
        /\ generated.st = "ok"
        /\ \A r \in DOMAIN grammar.rules : Cardinality(RoutinesFor(generated.methods, r)) <= 1
        /\ Len(generated.methods) <= Cardinality(Reachable(grammar.rules))

(***************************************************************************)
(* C20: type and name of the nodes of the two parsers                      *)
(***************************************************************************)
\* the tree of a node with the values left out: type and name of every node
RECURSIVE Labels(_)
Labels(node) ==
    [type |-> node.type, name |-> node.name,
     items |-> [i \in DOMAIN node.items |-> Labels(node.items[i])]]

\* the node the interpreter produces for the root rule on the input
InterpretedRoot == parse(grammar, input).ast.items[1]

\* C20: each AST node produced by an emitted routine carries the same type
\* and name as the node the interpreter produces for the same rule; for a
\* rule without display name the name equals the type in both, for every
\* rule variant, Repetition included.
C20_SameTypeAndName ==
    (pc = "ran" /\ genParsed.st = "ok" /\ parse(grammar, input).st = "ok") =>
        /\ genParsed.ast.type = InterpretedRoot.type
        /\ genParsed.ast.name = InterpretedRoot.name
        /\ Labels(genParsed.ast) = Labels(InterpretedRoot)

(***************************************************************************)
(* C14: generate calls on one generator and on new ones                    *)
(***************************************************************************)
\* what a first call on a new generator for the grammar emits
FreshSource == create_parser_template(grammar, analyze_grammar_rules(grammar, {}))

Routines(src) == {src.methods[i] : i \in DOMAIN src.methods}

\* C14: every generate call builds its own memoization table: after any
\* sequence of generate calls for one grammar, on the same ParserGenerator
\* or on new ones, the last call has succeeded and has emitted the same set
\* of routines as a first call on a new generator (stated for the grammars
\* for which that first call succeeds).
C14_EveryCallEmitsAsFresh ==
    (pc \in {"generated", "regenerated"} /\ FreshSource.st = "ok") =>
        /\ outcome.st = "ok"
        /\ generated.st = "ok"
        /\ Routines(generated) = Routines(FreshSource)

(***************************************************************************)
(* C18: the path generate returns                                          *)
(***************************************************************************)
\* C18: for every combination of output_dir (absolute or relative) and
\* output_file (absent, a file name, or a directory), the path returned by
\* ParserGenerator.generate / Parser.generate names the file into which the
\* parser source was written.
C18_ReturnedPathIsWrittenFile ==
    (pc \in {"generated", "regenerated"} /\ outcome.st = "ok") =>
        /\ Resolve(outcome.written) \in disk.files
        /\ Resolve(outcome.returned) = Resolve(outcome.written)

(***************************************************************************)
(* C15: a failed parse                                                     *)
(***************************************************************************)
\* what the root rule returns on the cleaned input
RootResult == _parse_with_rules(grammar.rules, _clean_text(grammar, input))

\* the root rule matches and leaves text that is not whitespace
LeavesText == Matched(RootResult) /\ strip(RootResult.remaining) # <<>>

\* C15: whenever Parser.parse fails (the root rule returns NoMatch, or leaves
\* a remainder that is not whitespace) the caller receives an error and no
\* AST, and neither the content hook nor the transform hook has been called;
\* when the failure is due to unconsumed input the error carries the
\* remaining text.
C15_FailureRaisesBeforeHooks ==
    pc = "parsed" =>
        /\ (Failed(RootResult) \/ LeavesText) =>
               /\ parsed.st = "error"
               /\ parsed.err = "ValueError"
        /\ parsed.st = "error" =>
               /\ parsed.ast = None
               /\ parsed.hooks = <<>>
        /\ LeavesText => parsed.remaining = RootResult.remaining

\* a grammar with a transform hook has failed on unconsumed input
C15_Witness ==
    /\ pc = "parsed"
    /\ grammar.transform
    /\ LeavesText
    /\ parsed.st = "error"
    /\ parsed.remaining # <<>>

(***************************************************************************)
(* C12: nested parentheses                                                 *)
(***************************************************************************)
\* the input read as "(" signs, then digits, then the rest
Opens == RunLen(input, {"("})

Digits == SubSeq(input, Opens + 1, Opens + RunLen(SliceFrom(input, Opens), DigitChars))

Rest == SliceFrom(input, Opens + Len(Digits))

Closes == RunLen(Rest, {")"})

\* n >= 1 "(" signs, one or more digits, then nothing but ")" signs
IsNesting == Opens >= 1 /\ Digits # <<>> /\ Closes = Len(Rest)

\* the tree of n levels around the digits: at each level "(", the value
\* inside under the alternation, ")"
RECURSIVE Nest(_, _)
Nest(n, digits) ==
    ASTNode("Conjoined",
            ListVal(<<ASTNode("Literal", StrVal(<<"(">>), ""),
                      ASTNode("Or", ListVal(<<IF n = 1 THEN ASTNode("RegExp", StrVal(digits), "")
                                               ELSE Nest(n - 1, digits)>>), ""),
                      ASTNode("Literal", StrVal(<<")">>), "")>>), "")

\* C12: with the grammar Sequence(Literal("("), Alternation(SelfReference,
\* Pattern("\d+")), Literal(")")), parsing n >= 1 opening parentheses, digits
\* and n closing parentheses succeeds and yields, at each level, the ordered
\* children "(", the value inside, ")"; the parse raises when closing
\* parentheses are missing.
C12_NestedParenthesesParse ==
    (pc = "parsed" /\ grammar = NestedGrammar /\ IsNesting) =>
        /\ Closes = Opens =>
               /\ parsed.st = "ok"
               /\ parsed.ast = ast(ASTNode("G", ListVal(<<Nest(Opens, Digits)>>), ""))
        /\ Closes < Opens => parsed.st = "error" /\ parsed.err = "ValueError"

\* a text of two levels or more has been parsed
C12_Witness ==
    /\ pc = "parsed"
    /\ grammar = NestedGrammar
    /\ IsNesting
    /\ Opens >= 2
    /\ Closes = Opens
    /\ parsed.st = "ok"

(***************************************************************************)
(* C17: the sentences of the test of EnglishSentenceParser                 *)
(***************************************************************************)
\* C17: for the EnglishSentenceParser grammar of the test, Parser.parse
\* returns a result whose ast() is a dictionary for every one of the test's
\* ten inputs, "This! Should not, !parse." among them.
C17_TestSentencesParse ==
    (pc = "parsed" /\ grammar = EnglishSentenceParser /\ input \in TestSentences) =>
        /\ parsed.st = "ok"
        /\ parsed.ast.obj = "dict"

(***************************************************************************)
(* C16: command lines                                                      *)
(***************************************************************************)
NameChars == LowerChars \cup UpperChars \cup DigitChars \cup {"_", "."}

\* a bare word
IsWord(arg) == arg # <<>> /\ \A i \in DOMAIN arg : arg[i] \in NameChars

\* a quoted string (without a space inside)
IsQuoted(arg) ==
    /\ Len(arg) >= 2
    /\ arg[1] = "'" /\ arg[Len(arg)] = "'"
    /\ \A i \in 2..(Len(arg) - 1) : arg[i] \in NameChars

\* -x or --name
IsFlag(arg) ==
    \E k \in 1..2 :
        /\ Len(arg) > k
        /\ \A i \in 1..k : arg[i] = "-"
        /\ arg[k + 1] \in LowerChars \cup UpperChars
        /\ \A i \in (k + 2)..Len(arg) : arg[i] \in WordChars

\* --name=value
IsOptionWithValue(arg) ==
    \E k \in DOMAIN arg :
        /\ arg[k] = "="
        /\ IsFlag(SubSeq(arg, 1, k - 1))
        /\ IsWord(SliceFrom(arg, k)) \/ IsQuoted(SliceFrom(arg, k))

\* arguments separated by single spaces; an option followed by its value is a
\* flag and a word
IsCommandLine(text) ==
    \A i \in DOMAIN split(text, " ") :
        LET arg == split(text, " ")[i]
        IN IsWord(arg) \/ IsQuoted(arg) \/ IsFlag(arg) \/ IsOptionWithValue(arg)

\* the walker of the test
TestWalker == TypedASTWalker("StructuredOutput", TestHandlers("structured"))

\* C16: for the CommandLineParser grammar of the test, Parser.parse succeeds
\* on every command line of space-separated arguments, each a bare word, a
\* quoted string, a flag (-x or --name) or an option with a value
\* (--name=value, or --name followed by a value), as in the four command
\* lines of the test, and walking the result with the handlers of the test
\* returns a StructuredOutput.
C16_CommandLinesParse ==
    (/\ pc \in {"parsed", "walked"}
     /\ grammar = CommandLineParser
     /\ input \in TestCommandLines \/ IsCommandLine(input)) =>
        /\ parsed.st = "ok"
        /\ (pc = "walked" /\ walker = TestWalker) =>
               walked.st = "ok" /\ walked.value.ty = "StructuredOutput"

(***************************************************************************)
(* C19: the type of the walked root                                        *)
(***************************************************************************)
\* C19: TypedASTWalker.walk enforces the output type at the root level for
\* every grammar: whenever the value produced for the root node of the walked
\* tree is not an instance of the walker's output_type, walk raises TypeError
\* and does not return that value.
C19_RootTypeEnforced ==
    (pc = "walked" /\ walk(walker, parsed.ast).ty # walker.output_type) =>
        /\ walked.st = "error"
        /\ walked.err = "TypeError"

(***************************************************************************)
(* C21: the regular expression of an emitted RegExp routine                *)
(***************************************************************************)
\* the emitted routines of the RegExp template
RegExpRoutines == {i \in DOMAIN generated.methods : generated.methods[i].template = "RegExp"}

\* C21: the regular expression applied by the emitted routine for a Pattern
\* rule is character for character the rule's own regex, backslash escapes
\* included, so the routine matches the input when and only when the
\* interpreter's Pattern matching does, and leaves what it leaves.
C21_EmittedPatternIsRulePattern ==
    (pc = "generated" /\ generated.st = "ok") =>
        \A i \in RegExpRoutines :
            LET m == generated.methods[i]
                rule == grammar.rules[m.r]
                emitted == run_regexp(input, m)
                interpreted == _parse_regexp(input, rule)
            IN /\ m.pattern = rule.pattern
               /\ emitted.st = interpreted.st
               /\ emitted.remaining = interpreted.remaining

(***************************************************************************)
(* C22: the emitted routine of a rule against the interpreter's            *)
(* application of the rule                                                 *)
(***************************************************************************)
\* Literal, Pattern with its two built-in specializations, Sequence,
\* Alternation, Repetition and Presence
RefinedKinds ==
    {"Literal", "RegExp", "Number", "String", "Conjoined", "Or", "GenericMinmax", "Optional"}

\* a rule graph built only from these, in which no instance is shared
Unshared(R) ==
    /\ \A r \in Reachable(R) : R[r].kind \in RefinedKinds
    /\ SharedInstances(R) = {}

\* the types of the child values a result has captured, in order
ChildTypes(result) == [i \in DOMAIN result.value.items |-> result.value.items[i].type]

\* C22: for every rule graph built only from Literal, Pattern, Sequence,
\* Alternation, Repetition and Presence in which no instance is shared, and
\* every text, the emitted routine for a rule and the interpreter's
\* application of that rule agree on match versus NoMatch, on the remaining
\* text, and on the count and order of the captured child values.
C22_RoutineAgreesWithInterpreter ==
    (pc = "generated" /\ generated.st = "ok" /\ Unshared(grammar.rules)) =>
        \A r \in Reachable(grammar.rules) :
            LET emitted == run(generated.methods, input, r)
                interpreted == _apply_rule(grammar.rules, input, r, {})
            IN /\ emitted.st = interpreted.st
               /\ Matched(interpreted) =>
                     /\ emitted.remaining = interpreted.remaining
                     /\ ChildTypes(emitted) = ChildTypes(interpreted)

(***************************************************************************)
(* C24: the built-in decimal-integer pattern on blanks followed by digits  *)
(***************************************************************************)
\* a text made of whitespace followed by digits, at least one of each
BlanksThenDigits(text) ==
    LET n == RunLen(text, SpaceChars)
    IN /\ n >= 1
       /\ n < Len(text)
       /\ RunLen(SliceFrom(text, n), DigitChars) = Len(text) - n

\* the called rule is a pattern of decimal digits: Number, or RegExp(r"\d+")
DigitsPattern(rule) ==
    rule.kind = "Number" \/ (rule.kind = "RegExp" /\ rule.pattern = "\\d+")

\* C24: every Pattern attempt, the built-in decimal-integer pattern (Number)
\* included, trims leading whitespace before matching: applied at any position
\* (as root, under an Alternation or a Presence, inside a Sequence) to a text
\* made of whitespace followed by digits, it matches and advances past the
\* digits; so a grammar without ignore rules whose root is Number parses
\* such an input.
C24_NumberTrimsLeadingWhitespace ==
    /\ (pc = "applied" /\ DigitsPattern(CalledRule) /\ BlanksThenDigits(call.text)) =>
          /\ Matched(call.result)
          /\ call.result.remaining = <<>>
    /\ (pc = "parsed" /\ grammar.rules[1].kind = "Number" /\ grammar.ignore = <<>>
        /\ BlanksThenDigits(input)) =>
          parsed.st = "ok"

(***************************************************************************)
(* C25: the built-in quoted-string pattern                                 *)
(***************************************************************************)
\* the length of the quoted string text begins with (a double quote, the
\* characters up to the next double quote, that double quote), or 0 if text
\* does not begin with one
QuotedLen(text) ==
    IF text # <<>> /\ Head(text) = "\"" /\ RunLenNot(Tail(text), {"\""}) < Len(text) - 1
    THEN RunLenNot(Tail(text), {"\""}) + 2
    ELSE 0

\* C25: the built-in quoted-string pattern (String) matches only when the
\* text at the current position, once trimmed, begins with a quoted string,
\* and then advances past the closing quote; applied to any text that does
\* not begin with a quoted string it returns NoMatch.
C25_StringMatchesQuotedOnly ==
    AppliedKind("String") =>
        LET text == lstrip(call.text)
        IN /\ Matched(call.result) <=> QuotedLen(text) > 0
           /\ Matched(call.result) =>
                 strip(call.result.remaining) = strip(SliceFrom(text, QuotedLen(text)))

(***************************************************************************)
(* C26: what a Literal attempt trims                                       *)
(***************************************************************************)
\* the whitespace characters the grammar marks as ignored
IgnoredBlanks(G) ==
    {c \in SpaceChars : \E i \in DOMAIN G.ignore :
                            G.ignore[i].kind = "Literal" /\ G.ignore[i].value = <<c>>}

\* text without its leading ignored whitespace
TrimIgnored(G, text) == SliceFrom(text, RunLen(text, IgnoredBlanks(G)))

\* C26: before a Literal attempt only leading whitespace that the grammar
\* marks as ignored is trimmed, then the text must start with the literal's
\* value and the position advances by exactly len(value); with an empty
\* ignore list the text is matched as it stands, and a Literal whose value
\* begins with whitespace matches a text that begins with that whitespace.
C26_LiteralTrimsIgnoredOnly ==
    AppliedKind("Literal") =>
        LET text == TrimIgnored(grammar, call.text)
        IN /\ Matched(call.result) <=> startswith(text, CalledRule.value)
           /\ Matched(call.result) =>
                 call.result.remaining = SliceFrom(text, Len(CalledRule.value))

(***************************************************************************)
(* C27: the value of a leaf node                                           *)
(***************************************************************************)
\* the text the called leaf rule has matched: what the recorded text, trimmed
\* as the rule trims it, holds in front of the remaining text
MatchedSpan ==
    LET text == IF CalledRule.kind = "Number" THEN call.text ELSE strip(call.text)
    IN SubSeq(text, 1, Len(text) - Len(call.result.remaining))

\* C27: the value of every leaf AST node is the primitive that was matched:
\* the literal's value for Literal, the full matched span for Pattern, and
\* the integer value of the matched digits for the decimal-integer pattern;
\* this holds for every match, a match of the empty text and a matched
\* integer equal to 0 included.
C27_LeafValueIsMatchedPrimitive ==
    (/\ pc = "applied"
     /\ CalledRule.kind \in {"Literal", "RegExp", "String", "Number"}
     /\ Matched(call.result)) =>
        LET value == call.result.value
        IN CASE CalledRule.kind = "Literal" ->
                    value.vk = "str" /\ value.sv = CalledRule.value
             [] CalledRule.kind = "Number" ->
                    value.vk = "int" /\ value.iv = int(MatchedSpan)
             [] OTHER ->
                    value.vk = "str" /\ value.sv = MatchedSpan

(***************************************************************************)
(* C28: the name of the node of a rule                                     *)
(***************************************************************************)
\* the variants that build a node of their own (Me and Dependency return the
\* node of the rule they stand for)
NodeKinds ==
    {"Literal", "RegExp", "Number", "String", "Optional", "Or", "Conjoined", "GenericMinmax"}

\* the called rule applied to the recorded text without its display name
AppliedUnnamed ==
    _apply_rule([grammar.rules EXCEPT ![call.r].custom_name = ""], call.text, call.r, {})

\* C28: for every rule variant, the AST node the interpreter produces for a
\* rule has name equal to the rule's display name when one was set with
\* with_name and equal to its type otherwise, and setting a display name
\* never changes which texts the rule matches or what remains.
C28_NameIsDisplayNameOrType ==
    (pc = "applied" /\ CalledRule.kind \in NodeKinds) =>
        /\ Matched(call.result) =>
              call.result.value.name =
                  IF CalledRule.custom_name # "" THEN CalledRule.custom_name
                  ELSE call.result.value.type
        /\ call.result.st = AppliedUnnamed.st
        /\ call.result.remaining = AppliedUnnamed.remaining

(***************************************************************************)
(* C29: the text after the cleaning step of parse                          *)
(***************************************************************************)
\* value occurs in text
Occurs(text, value) ==
    \E i \in 1..Len(text) : startswith(SliceFrom(text, i - 1), value)

\* the literals of the ignore rules of the grammar
IgnoreLiterals(G) ==
    {G.ignore[i].value : i \in {j \in DOMAIN G.ignore : G.ignore[j].kind = "Literal"}}

\* C29: for every input and every configured set of ignore-literals, after
\* the top-level cleaning step of parse the text handed to the root rule
\* contains no occurrence of any configured ignore-literal.
C29_CleanedTextHasNoIgnoreLiteral ==
    pc = "parsed" =>
        \A value \in IgnoreLiterals(grammar) : ~Occurs(_clean_text(grammar, input), value)

(***************************************************************************)
(* C23: termination of parse                                               *)
(***************************************************************************)
\* the rule matches only by consuming at least one character (a Me is not
\* counted on to consume)
RECURSIVE Consumes(_, _)
Consumes(R, r) ==
    LET rule == R[r]
    IN CASE rule.kind = "Literal" -> rule.value # <<>>
         [] rule.kind = "RegExp" -> ReMatch(rule.pattern, <<>>) < 0
         [] rule.kind = "Number" -> TRUE
         [] rule.kind = "Dependency" -> Consumes(R, rule.rule)
         [] rule.kind = "Or" -> \A i \in DOMAIN rule.rules : Consumes(R, rule.rules[i])
         [] rule.kind = "Conjoined" -> \E i \in DOMAIN rule.rules : Consumes(R, rule.rules[i])
         [] rule.kind = "GenericMinmax" -> rule.min_count >= 1 /\ Consumes(R, rule.rule)
         [] OTHER -> FALSE

\* the rules that rule r can apply before any character is consumed
FirstRules(R, r) ==
    LET rule == R[r]
    IN CASE rule.kind \in {"Optional", "Dependency", "GenericMinmax"} -> {rule.rule}
         [] rule.kind = "Or" -> {rule.rules[i] : i \in DOMAIN rule.rules}
         [] rule.kind = "Conjoined" ->
               {rule.rules[i] : i \in {k \in DOMAIN rule.rules :
                                          \A j \in 1..(k - 1) : ~Consumes(R, rule.rules[j])}}
         [] OTHER -> {}

RECURSIVE FirstFrom(_, _)
FirstFrom(R, S) ==
    LET S2 == S \cup UNION {FirstRules(R, r) : r \in S}
    IN IF S2 = S THEN S ELSE FirstFrom(R, S2)

\* each SelfReference is reached only after at least one character has been
\* consumed since the root rule was entered
SelfReferenceGuarded(R) == \A r \in FirstFrom(R, {1}) : R[r].kind # "Me"

\* parse has returned or has raised its ValueError; the exhaustion of the
\* stack is not the end of a parse that terminates
Terminated == pc = "parsed" /\ parsed.err # "RecursionError"

\* C23: for every grammar in which each SelfReference is reached only after
\* at least one character has been consumed since the root rule was entered
\* (in particular every grammar without SelfReference), and every finite
\* input, Parser.parse terminates; an unbounded Repetition (max_count == 0)
\* terminates even when its inner rule can match without consuming any text.
C23_ParseTerminates ==
    (pc = "parsing" /\ SelfReferenceGuarded(grammar.rules)) ~> Terminated

\* a parse has ended whose root rule is an unbounded repetition of a rule
\* that has matched the text left without consuming any of it
C23_Witness ==
    /\ Terminated
    /\ SelfReferenceGuarded(grammar.rules)
    /\ grammar.rules[1].kind = "GenericMinmax"
    /\ grammar.rules[1].max_count = 0
    /\ LET text == strip(_clean_text(grammar, input))
           result == _apply_rule(grammar.rules, text, grammar.rules[1].rule, {})
       IN /\ text # <<>>
          /\ Matched(result)
          /\ strip(result.remaining) = text

====
